---- MODULE Spec2Model ----
(***************************************************************************)
(* A model of the DNS tools of hazadus/network-learn.                      *)
(*                                                                         *)
(* Part 1: the iterative resolver, dns_raw.resolve (src/dns_resolver/      *)
(* dns_raw.py:427-448).  Its state is the chain of active resolve() calls  *)
(* (one frame per call: the domain asked for and the nameserver queried    *)
(* next), the place of the innermost call in its loop, the last decoded    *)
(* reply, the outcome of the top-level call and the lines printed at line  *)
(* 436.  The transport is either free (any reply of a bounded set may      *)
(* arrive) or a stub whose reply is a function of the server and the name  *)
(* asked.                                                                  *)
(*                                                                         *)
(* Part 2: the name decoder, decode_name and decode_compressed_name        *)
(* (dns_raw.py:361-388), stepped one loop iteration at a time over a       *)
(* bounded byte buffer.                                                    *)
(*                                                                         *)
(* Part 3: the message codec, create_dns_message (dns_raw.py:391-404) and  *)
(* DNSMessage.from_bytes (dns_raw.py:292-305), over domains to encode and  *)
(* over the bytes of replies: whole, cut short, or with wrong counts or    *)
(* record data lengths.                                                    *)
(***************************************************************************)
EXTENDS Integers, Sequences, FiniteSets, TLC

VARIABLES
    world,      \* the transport: free, or a stub of delegations
    stack,      \* active resolve() calls, outermost first
    pc,         \* place of the innermost call: "send", "wait", "decide", "done"
    reply,      \* the DNSMessage decoded last (line 439)
    outcome,    \* what the top-level resolve() call gave its caller
    log,        \* the "Querying <nameserver> for <domain>" lines (line 436)
    socks,      \* the sockets send_udp_message has open, by the server queried
    rid,        \* the transaction id of the datagram received last
    other,      \* the second of two interleaved resolve() calls, while it is not running
    turn,       \* which of the two calls is running: 1 or 2
    buf,        \* decoder: the bytes of the reader
    pos,        \* decoder: the reader's position (0-based, as tell())
    dstack,     \* decoder: active decode_name() calls, outermost first
    dpc,        \* decoder: "idle", "read", "ret", "done", "error"
    dret,       \* decoder: the value being returned / the final name
    derr,       \* decoder: the exception raised, if any
    minput,     \* codec: the input, a domain to encode or the bytes of a reply
    mpc,        \* codec: "idle", "start", "header", "name", "rdata", "done", "error"
    hdr,        \* codec: the DNSHeader decoded by from_bytes
    sections,   \* codec: the questions and records decoded so far
    cur,        \* codec: the locals of the DNSRecord.from_bytes call under way
    default_id, \* codec: the default of DNSHeader.id, set when the class is defined
    draws,      \* codec: the calls of random.randint made so far
    built,      \* codec: the ids of the queries built so far
    hreq,       \* static files: the path of the request
    hresp,      \* static files: what load_path gave
    hvariant,   \* HTTP server: which of the two servers of the repository runs
    hpc,        \* HTTP server: where serve_forever is
    hconn,      \* HTTP server: the connections accepted so far, open or closed
    hmsg,       \* HTTP server: what the client of the last connection sent
    hsent,      \* HTTP server: the response written to the last connection
    routes,     \* WSGI application: the registered rules, in registration order
    wres        \* WSGI application: the last call of the application

vars == <<world, stack, pc, reply, outcome, log, socks, rid, other, turn,
          buf, pos, dstack, dpc, dret, derr,
          minput, mpc, hdr, sections, cur, default_id, draws, built, hreq, hresp,
          hvariant, hpc, hconn, hmsg, hsent, routes, wres>>
resolverVars == <<world, stack, pc, reply, outcome, log, socks, rid, other, turn>>
pairVars == <<other, turn>>
decoderVars == <<buf, pos, dstack, dpc, dret, derr>>
codecVars == <<minput, mpc, hdr, sections, cur, default_id, draws, built>>
serverVars == <<hvariant, hpc, hconn, hmsg, hsent>>
wsgiVars == <<routes, wres>>
httpVars == <<hreq, hresp, serverVars, wsgiVars>>

---------------------------------------------------------------------------
(* Bounds of the model.                                                    *)

\* Most records one reply of the free transport carries, all sections together.
MaxRecs == 2
\* Deepest nesting of resolve() calls explored under the free transport.
MaxNest == 2
\* Longest chain of glue-less delegations a stub transport serves.
MaxChain == 22
\* Longest byte buffer handed to the name decoder.
MaxBuf == 4
\* Most compression pointers the decoder is followed through in one name.
MaxHops == 4

---------------------------------------------------------------------------
(* Program constants.                                                      *)

QTYPE_A == 1
QTYPE_NS == 2
QTYPE_CNAME == 5
QTYPE_AAAA == 28

\* dns_raw.py:434, the root server every resolve() call starts at.
RootServer == "198.41.0.4"
\* dns_raw.py:274, the "address" of a record of any type but A, AAAA and NS.
UnknownAddress == "WARNING: Unknown address format."
\* A property that returns nothing (dns_raw.py:315-324) yields Python's None.
None == "<None>"

\* Addresses and names the replies are built from.
NsAddr == "199.43.135.53"
HostAddr == "93.184.216.34"
V6Addr == "2606:2800:220:1:248:1893:25c8:1946"

\* The names of a delegation chain: ChainName(0) is the name asked first.
ChainNames ==
    <<
        "example.com", "a.iana-servers.net", "ns2.chain.test", "ns3.chain.test",
        "ns4.chain.test", "ns5.chain.test", "ns6.chain.test", "ns7.chain.test",
        "ns8.chain.test", "ns9.chain.test", "ns10.chain.test", "ns11.chain.test",
        "ns12.chain.test", "ns13.chain.test", "ns14.chain.test", "ns15.chain.test",
        "ns16.chain.test", "ns17.chain.test", "ns18.chain.test", "ns19.chain.test",
        "ns20.chain.test", "ns21.chain.test", "ns22.chain.test", "ns23.chain.test",
        "ns24.chain.test", "ns25.chain.test"
    >>
ChainName(k) == ChainNames[k + 1]
ChainIndex(name) == CHOOSE k \in 0..(Len(ChainNames) - 1) : ChainNames[k + 1] = name

\* sock.sendto (dns_raw.py:419) takes an IPv4 literal on its AF_INET socket;
\* an IPv6 literal or the warning text makes it raise socket.gaierror.
IsIPv4(a) == a \in {RootServer, NsAddr, HostAddr}

---------------------------------------------------------------------------
(* Decoded messages: DNSRecord keeps type_ and address (dns_raw.py:239-244) *)
(* of what resolve reads; DNSMessage keeps the three record sections.       *)

Rec(t, a) == [type |-> t, address |-> a]

AnswerPool == {Rec(QTYPE_A, HostAddr), Rec(QTYPE_AAAA, V6Addr), Rec(QTYPE_CNAME, UnknownAddress)}
\* An NS record may name the root: its rdata is the byte 00 and the decoded
\* name is the empty string (dns_raw.py:270-272).
RootName == ""
AuthorityPool ==
    {Rec(QTYPE_NS, ChainName(1)), Rec(QTYPE_NS, RootName), Rec(QTYPE_CNAME, UnknownAddress)}
AdditionalPool == {Rec(QTYPE_A, NsAddr), Rec(QTYPE_AAAA, V6Addr)}

SeqsUpTo(S, k) == UNION {[1..m -> S] : m \in 0..k}

Msg(an, au, ad) == [answers |-> an, authorities |-> au, additionals |-> ad]

Replies ==
    {m \in {Msg(an, au, ad) : an \in SeqsUpTo(AnswerPool, MaxRecs),
                              au \in SeqsUpTo(AuthorityPool, MaxRecs),
                              ad \in SeqsUpTo(AdditionalPool, MaxRecs)} :
        Len(m.answers) + Len(m.authorities) + Len(m.additionals) <= MaxRecs}

EmptyMsg == Msg(<<>>, <<>>, <<>>)

\* The address of the first record of `section` whose type is in `types`.
FirstOfType(section, types) ==
    IF \E i \in 1..Len(section) : section[i].type \in types
    THEN section[CHOOSE i \in 1..Len(section) :
                    /\ section[i].type \in types
                    /\ \A j \in 1..(i - 1) : section[j].type \notin types].address
    ELSE None

\* The truth of a value of type str | None, as `if` and `elif` test it
\* (dns_raw.py:443 and 445): None and the empty string are false.
Truth(v) == v \notin {None, ""}

\* DNSMessage.nameserver_ip (dns_raw.py:314-318).
nameserver_ip(m) == FirstOfType(m.additionals, {QTYPE_A})
\* DNSMessage.nameserver_name (dns_raw.py:320-324).
nameserver_name(m) == FirstOfType(m.authorities, {QTYPE_NS})

---------------------------------------------------------------------------
(* The transport.  Under the free transport any reply of Replies may       *)
(* arrive.  A stub transport answers as a function of the server and the   *)
(* name asked: the root server delegates ChainName(k) to ChainName(k+1),   *)
(* without glue, for k < n, and gives the tail reply for ChainName(n);     *)
(* every other server answers with the host address, or, in a looping      *)
(* stub, refers back to the root server.                                   *)

FreeWorld == [kind |-> "free", n |-> 0, tail |-> "none"]
Tails == {"answer", "glue", "none", "cname", "loop"}
StubWorlds == {[kind |-> "stub", n |-> k, tail |-> t] : k \in 0..MaxChain, t \in Tails}

TailReply(tail) ==
    CASE tail = "answer" -> Msg(<<Rec(QTYPE_A, NsAddr)>>, <<>>, <<>>)
      [] tail = "glue"   -> Msg(<<>>, <<>>, <<Rec(QTYPE_A, NsAddr)>>)
      [] tail = "loop"   -> Msg(<<>>, <<>>, <<Rec(QTYPE_A, NsAddr)>>)
      [] tail = "cname"  -> Msg(<<Rec(QTYPE_CNAME, UnknownAddress)>>, <<>>, <<>>)
      [] OTHER           -> EmptyMsg

StubReply(w, server, name) ==
    IF server = RootServer
    THEN IF ChainIndex(name) < w.n
         THEN Msg(<<>>, <<Rec(QTYPE_NS, ChainName(ChainIndex(name) + 1))>>, <<>>)
         ELSE TailReply(w.tail)
    ELSE IF w.tail = "loop"
         THEN Msg(<<>>, <<>>, <<Rec(QTYPE_A, RootServer)>>)
         ELSE Msg(<<Rec(QTYPE_A, HostAddr)>>, <<>>, <<>>)

\* Nesting explored: MaxNest under the free transport; a stub's chain ends by itself.
NestCap == IF world.kind = "free" THEN MaxNest ELSE world.n + 1
\* Printed lines kept: a stub's finite runs print at most 2n+2 lines, a looping
\* run keeps its first 2n+3; the free transport's runs keep none.
LogCap == IF world.kind = "free" THEN 0 ELSE 2 * world.n + 3

---------------------------------------------------------------------------
(* resolve (dns_raw.py:427-448).                                           *)

Frame(d, ns) == [domain |-> d, nameserver |-> ns]
Top == stack[Len(stack)]
NoOutcome == [kind |-> "none", value |-> None]
Returned(v) == [kind |-> "returned", value |-> v]
Raised(e) == [kind |-> "raised", value |-> e]

Printed(l, f) == IF Len(l) < LogCap THEN Append(l, <<f.nameserver, f.domain>>) ELSE l

\* The codec at rest (Part 3).
\* DNSHeader(...): the dataclass defaults of lines 22-34; the default of id
\* is the value random.randint gave when the class was defined.
DNSHeader(id_, rd_) ==
    [id |-> id_, qr |-> 0, opcode |-> 0, aa |-> 0, tc |-> 0, rd |-> rd_, ra |-> 0,
     z |-> 0, rcode |-> 0, qdcount |-> 1, ancount |-> 0, nscount |-> 0, arcount |-> 0]

ZeroHeader == [DNSHeader(0, 0) EXCEPT !.qdcount = 0]
NoSections == [questions |-> <<>>, answers |-> <<>>, authorities |-> <<>>, additionals |-> <<>>]
NoRecord ==
    [name |-> <<>>, type |-> 0, class |-> 0, ttl |-> 0, rdlength |-> 0, rdata_pos |-> 0,
     rdata |-> <<>>]
NoInput == [kind |-> "none", domain |-> <<>>, full |-> <<>>, cut |-> 0]

CodecIdle ==
    /\ minput = NoInput
    /\ mpc = "idle"
    /\ hdr = ZeroHeader
    /\ sections = NoSections
    /\ cur = NoRecord
    /\ default_id = 0
    /\ draws = 0
    /\ built = <<>>

\* The values random.randint(0, 65535) may have given at line 22.
TxIds == {4660, 65535}

\* The codec as resolve() finds it: the module is imported, so the class
\* DNSHeader is defined and the default of id was drawn once (line 22).
CodecLoaded ==
    /\ minput = NoInput
    /\ mpc = "idle"
    /\ hdr = ZeroHeader
    /\ sections = NoSections
    /\ cur = NoRecord
    /\ default_id \in TxIds
    /\ draws = 1
    /\ built = <<>>

\* The static file server at rest (Part 4).
NoRequest == <<>>
NoResponse == [status |-> 0, entry |-> <<>>, kind |-> "none"]
NoMessage == [method |-> "", version |-> "", tokens |-> 0, host |-> None, fault |-> "none"]
NothingSent ==
    [status |-> 0, reason |-> "", ctype |-> None, clen |-> 0, body |-> <<>>, listed |-> <<"<missing>">>]
NoCallYet == [path |-> <<>>, handler |-> None, kwargs |-> <<>>, status |-> "", body |-> <<>>,
              started |-> 0, error |-> None]
\* No HTTP server runs and no WSGI application is called.
ServerIdle ==
    /\ hvariant = "none"
    /\ hpc = "idle"
    /\ hconn = <<>>
    /\ hmsg = NoMessage
    /\ hsent = NothingSent
WsgiIdle ==
    /\ routes = <<>>
    /\ wres = NoCallYet
StaticIdle ==
    /\ hreq = NoRequest
    /\ hresp = NoResponse
    /\ ServerIdle
    /\ WsgiIdle

DecoderIdle ==
    /\ buf = <<>>
    /\ pos = 0
    /\ dstack = <<>>
    /\ dpc = "idle"
    /\ dret = <<>>
    /\ derr = None

\* send_udp_message, line 417: a socket is created for the server queried.
OpenSocket(s, server) == Append(s, server)

\* send_udp_message, lines 420-421: "finally: sock.close()" closes the socket
\* of this call, whether sendto and recvfrom returned or raised.
CloseSocket_Leaks(s) == s
CloseSocket(s) == SubSeq(s, 1, Len(s) - 1)

\* send_udp_message, lines 419-420: recvfrom follows sendto in the same call,
\* so after a query is sent the call waits for its reply.
AfterSend_NoWait == "send"
AfterSend == "wait"

\* resolve has no except clause (lines 427-448): an exception raised in a
\* call leaves that call and every caller of it; no frame stays.
Unwind_ToCaller(s) == SubSeq(s, 1, Len(s) - 1)
Unwind(s) == <<>>

\* An exception e is raised inside the innermost resolve() call.
RaiseError(e) ==
    /\ outcome' = Raised(e)
    /\ stack' = Unwind(stack)
    /\ pc' = IF stack' = <<>> THEN "done" ELSE "send"

\* No second call of resolve() is interleaved with this one.
NoCall == [stack |-> <<>>, pc |-> "none", reply |-> EmptyMsg, outcome |-> NoOutcome,
           log |-> <<>>, socks |-> <<>>, rid |-> 0]

\* A call resolve(domain): nameserver = root (line 434), about to loop.
InitResolver(worlds, domains) ==
    /\ world \in worlds
    /\ \E d \in domains : stack = <<Frame(d, RootServer)>>
    /\ pc = "send"
    /\ reply = EmptyMsg
    /\ outcome = NoOutcome
    /\ log = <<>>
    /\ socks = <<>>
    /\ rid = 0
    /\ other = NoCall
    /\ turn = 1
    /\ DecoderIdle
    /\ CodecLoaded
    /\ StaticIdle

\* Lines 436-438 and 419: print, build the query, sendto succeeds.
SendQuery ==
    /\ pc = "send"
    /\ IsIPv4(Top.nameserver)
    /\ log' = Printed(log, Top)
    /\ socks' = OpenSocket(socks, Top.nameserver)
    /\ pc' = AfterSend
    /\ UNCHANGED <<world, stack, reply, outcome, rid, pairVars, decoderVars, codecVars, httpVars>>

\* Lines 436-438 and 419: sendto raises for a nameserver that is no IPv4
\* address; the exception leaves every active resolve() call.
SendFails ==
    /\ pc = "send"
    /\ ~IsIPv4(Top.nameserver)
    /\ log' = Printed(log, Top)
    /\ socks' = CloseSocket(OpenSocket(socks, Top.nameserver))
    /\ RaiseError("socket.gaierror")
    /\ UNCHANGED <<world, reply, rid, pairVars, decoderVars, codecVars, httpVars>>

\* Lines 420 and 439, free transport: a datagram arrives and decodes to m.
ReceiveReply ==
    /\ pc = "wait"
    /\ world.kind = "free"
    /\ \E m \in Replies : reply' = m
    /\ \E i \in TxIds : rid' = i
    /\ socks' = CloseSocket(socks)
    /\ pc' = "decide"
    /\ UNCHANGED <<world, stack, outcome, log, pairVars, decoderVars, codecVars, httpVars>>

\* Lines 420 and 439, free transport: recvfrom raises (OSError), or the
\* datagram does not decode: struct.unpack on a short buffer (struct.error),
\* an index past the end (IndexError), socket.inet_ntop on rdata of the
\* wrong length (ValueError, lines 265-268), a label that is not UTF-8
\* (UnicodeDecodeError, line 229), a name whose pointer leads back to
\* itself (RecursionError, lines 365-386).  The exception leaves every
\* active resolve() call.
ReceiveFails ==
    /\ pc = "wait"
    /\ world.kind = "free"
    /\ \E e \in {"OSError", "struct.error", "IndexError", "ValueError",
                 "UnicodeDecodeError", "RecursionError"} : RaiseError(e)
    /\ socks' = CloseSocket(socks)
    /\ UNCHANGED <<world, reply, log, rid, pairVars, decoderVars, codecVars, httpVars>>

\* Lines 420 and 439, stub transport: the reply the stub gives this query.
ReceiveStubReply ==
    /\ pc = "wait"
    /\ world.kind = "stub"
    /\ reply' = StubReply(world, Top.nameserver, Top.domain)
    /\ rid' = default_id
    /\ socks' = CloseSocket(socks)
    /\ pc' = "decide"
    /\ UNCHANGED <<world, stack, outcome, log, pairVars, decoderVars, codecVars, httpVars>>

\* The value a nested call returns becomes its caller's nameserver (line 446).
ReturnTo(caller, v) == Frame(caller.domain, v)

\* Lines 441-442: the answer section is not empty; return its first address.
ReturnAnswer_KeepsNameserver ==
    /\ pc = "decide"
    /\ Len(reply.answers) > 0
    /\ IF Len(stack) = 1
       THEN /\ pc' = "done"
            /\ stack' = <<>>
            /\ outcome' = Returned(reply.answers[1].address)
       ELSE /\ pc' = "send"
            /\ stack' = SubSeq(stack, 1, Len(stack) - 1)
            /\ outcome' = outcome
    /\ UNCHANGED <<world, reply, log, socks, rid, pairVars, decoderVars, codecVars, httpVars>>

ReturnAnswer ==
    /\ pc = "decide"
    /\ Len(reply.answers) > 0
    /\ IF Len(stack) = 1
       THEN /\ pc' = "done"
            /\ stack' = <<>>
            /\ outcome' = Returned(reply.answers[1].address)
       ELSE /\ pc' = "send"
            /\ stack' = [SubSeq(stack, 1, Len(stack) - 1) EXCEPT
                            ![Len(stack) - 1] = ReturnTo(@, reply.answers[1].address)]
            /\ outcome' = outcome
    /\ UNCHANGED <<world, reply, log, socks, rid, pairVars, decoderVars, codecVars, httpVars>>

\* Lines 443-444: no answers, an A record among the additionals: query it next.
FollowGlue ==
    /\ pc = "decide"
    /\ Len(reply.answers) = 0
    /\ Truth(nameserver_ip(reply))
    /\ stack' = [stack EXCEPT ![Len(stack)] = Frame(@.domain, nameserver_ip(reply))]
    /\ pc' = "send"
    /\ UNCHANGED <<world, reply, outcome, log, socks, rid, pairVars, decoderVars, codecVars, httpVars>>

\* Lines 445-446: no answers, no A glue, and the name of the first NS record
\* of the authorities is not empty: call resolve() on it.
ResolveNameserver ==
    /\ pc = "decide"
    /\ Len(reply.answers) = 0
    /\ ~Truth(nameserver_ip(reply))
    /\ Truth(nameserver_name(reply))
    /\ Len(stack) < NestCap
    /\ stack' = Append(stack, Frame(nameserver_name(reply), RootServer))
    /\ pc' = "send"
    /\ UNCHANGED <<world, reply, outcome, log, socks, rid, pairVars, decoderVars, codecVars, httpVars>>

\* Lines 447-448: none of the three (no NS record, or the first one names
\* the root); raise Exception("Can't resolve ...").
CantResolve ==
    /\ pc = "decide"
    /\ Len(reply.answers) = 0
    /\ ~Truth(nameserver_ip(reply))
    /\ ~Truth(nameserver_name(reply))
    /\ RaiseError("Exception")
    /\ UNCHANGED <<world, reply, log, socks, rid, pairVars, decoderVars, codecVars, httpVars>>

Init == InitResolver({FreeWorld}, {ChainName(0), ChainName(1)})

Next ==
    \/ SendQuery
    \/ SendFails
    \/ ReceiveReply
    \/ ReceiveFails
    \/ ReturnAnswer
    \/ FollowGlue
    \/ ResolveNameserver
    \/ CantResolve

Spec == Init /\ [][Next]_vars

InitStub == InitResolver(StubWorlds, {ChainName(0)})

NextStub ==
    \/ SendQuery
    \/ SendFails
    \/ ReceiveStubReply
    \/ ReturnAnswer
    \/ FollowGlue
    \/ ResolveNameserver
    \/ CantResolve

SpecStub == InitStub /\ [][NextStub]_vars

\* The program runs on and the stub always replies: a step that can be taken is taken.
FairStub == SpecStub /\ WF_vars(NextStub)

---------------------------------------------------------------------------
(* The contract's vocabulary (spec 4.2 and 4.4), used to state the claims. *)

AddressTypes == {QTYPE_A, QTYPE_AAAA}
first_answer_address(m) == FirstOfType(m.answers, AddressTypes)
first_glue_address(m) == FirstOfType(m.additionals, AddressTypes)
first_delegated_nameserver(m) == FirstOfType(m.authorities, {QTYPE_NS})
\* The depth the contract allows nested resolutions to reach (spec 4.4).
MaxDepth == 20

---------------------------------------------------------------------------
(* Claims about resolve.                                                   *)

\* C1: whenever resolve returns a value, the value is the rendered address of
\* the first answer record of type A or AAAA of the reply just decoded; a reply
\* whose answers hold no such record does not make resolve return.
C1_ReturnsFirstAnswerAddress ==
    (pc = "done" /\ outcome.kind = "returned") =>
        /\ first_answer_address(reply) # None
        /\ outcome.value = first_answer_address(reply)

\* C2: a step whose reply has no answer address but a glue address keeps the
\* call querying: it only replaces the nameserver of the innermost call by the
\* glue address (same domain, no call added or removed).
C2_GlueStepStaysQuerying ==
    [][(/\ pc = "decide"
        /\ first_answer_address(reply) = None
        /\ first_glue_address(reply) # None)
       => (/\ pc' = "send"
           /\ stack' = [stack EXCEPT ![Len(stack)] =
                            Frame(@.domain, first_glue_address(reply))])]_vars

\* C3: a step whose reply has neither an answer address nor a glue address but
\* an NS record among the authorities starts a nested resolve of the first NS
\* name at the root server; and the only step that removes the nested call
\* resumes the caller with its own domain and the returned address as server.
C3_DelegationStartsNestedResolve ==
    [][/\ (/\ pc = "decide"
           /\ first_answer_address(reply) = None
           /\ first_glue_address(reply) = None
           /\ first_delegated_nameserver(reply) # None)
          => (/\ pc' = "send"
              /\ stack' = Append(stack, Frame(first_delegated_nameserver(reply), RootServer)))
       /\ (Len(stack') = Len(stack) - 1 /\ Len(stack') > 0)
          => (/\ pc' = "send"
              /\ stack'[Len(stack')].domain = stack[Len(stack')].domain
              /\ stack'[Len(stack')].nameserver = first_answer_address(reply)
              /\ first_answer_address(reply) # None)]_vars

\* C4: a step whose reply has no answer address, no glue address and no NS
\* record among the authorities ends the resolution with the failure raised at
\* line 448 ("Can't resolve"): no query follows, no nested call is started.
C4_NoDelegationPathFails ==
    [][(/\ pc = "decide"
        /\ first_answer_address(reply) = None
        /\ first_glue_address(reply) = None
        /\ first_delegated_nameserver(reply) = None)
       => (/\ pc' = "done"
           /\ stack' = <<>>
           /\ outcome' = Raised("Exception"))]_vars

\* C5: the nested resolve calls (those below the top-level call) never number
\* more than MaxDepth, and a chain of more than MaxDepth glue-less delegations
\* ends in the failure DelegationTooDeep.
C5_DepthGuard ==
    /\ Len(stack) - 1 <= MaxDepth
    /\ (world.kind = "stub" /\ world.n > MaxDepth /\ pc = "done")
          => outcome = Raised("DelegationTooDeep")

\* The stub of the end-to-end scenario, and the queries it is to receive.
EndToEndStub ==
    /\ world.kind = "stub"
    /\ StubReply(world, RootServer, "example.com")
          = Msg(<<>>, <<Rec(QTYPE_NS, "a.iana-servers.net")>>, <<>>)
    /\ StubReply(world, RootServer, "a.iana-servers.net")
          = Msg(<<Rec(QTYPE_A, "199.43.135.53")>>, <<>>, <<>>)
    /\ StubReply(world, "199.43.135.53", "example.com")
          = Msg(<<Rec(QTYPE_A, "93.184.216.34")>>, <<>>, <<>>)
EndToEndQueries ==
    << <<"198.41.0.4", "example.com">>,
       <<"198.41.0.4", "a.iana-servers.net">>,
       <<"199.43.135.53", "example.com">> >>
\* C6: with the stub where the root server delegates example.com to
\* a.iana-servers.net without glue, answers a.iana-servers.net with the A record
\* 199.43.135.53, and 199.43.135.53 answers example.com with the A record
\* 93.184.216.34, resolve("example.com") queries root for example.com, root for
\* a.iana-servers.net and 199.43.135.53 for example.com, in that order and
\* nothing else, and returns 93.184.216.34.
C6_EndToEnd ==
    EndToEndStub =>
        /\ Len(log) <= Len(EndToEndQueries)
        /\ log = SubSeq(EndToEndQueries, 1, Len(log))
        /\ pc = "done" => (outcome = Returned("93.184.216.34") /\ log = EndToEndQueries)
\* The scenario run to its end: three queries sent, the host address returned.
C6_Witness ==
    /\ EndToEndStub
    /\ pc = "done"
    /\ outcome = Returned("93.184.216.34")
    /\ Len(log) = 3

\* C7: of several address records in the answer section, or in the additional
\* section, the one used is the first in section order, whatever its type.
C7_FirstInSectionOrderWins ==
    [][/\ (/\ pc = "decide" /\ pc' = "done" /\ outcome'.kind = "returned"
           /\ first_answer_address(reply) # None)
          => outcome'.value = first_answer_address(reply)
       /\ (pc = "decide" /\ pc' = "send" /\ Len(stack') = Len(stack))
          => stack'[Len(stack)].nameserver = first_glue_address(reply)]_vars

\* C8: every resolve call eventually ends, returning an address or raising one
\* error, whatever the servers reply.
C8_EventuallyEnds == <>(pc = "done" /\ outcome.kind \in {"returned", "raised"})

\* C20: the glue hint of a decoded message, nameserver_ip, is the rendered
\* address of the first additional record of type A or AAAA, and is absent
\* exactly when the additionals hold no record of either type (a section of
\* AAAA records alone yields a glue address).
C20_GlueIsFirstAddressAdditional ==
    (pc = "decide") => (nameserver_ip(reply) = first_glue_address(reply))

---------------------------------------------------------------------------
(* decode_name and decode_compressed_name (dns_raw.py:361-388), one loop   *)
(* iteration of the innermost decode_name call per step.  A frame keeps    *)
(* the offset its call started reading at, the parts it has collected and  *)
(* the position its caller restores on return (current_pos, line 384).     *)

\* Byte values the buffers are built from: the terminator, short lengths (and
\* small offsets), a letter (0x61: bit 6 set, bit 7 clear) and 0xC0.
ByteVals == {0, 1, 2, 97, 192}
Buffers == SeqsUpTo(ByteVals, MaxBuf)

DFrame(s, ps, r) == [start |-> s, parts |-> ps, ret |-> r]
DTop == dstack[Len(dstack)]
\* reader.read(n) at position p: the bytes there are, at most n of them.
ReadBytes(b, p, n) == SubSeq(b, p + 1, IF p + n <= Len(b) THEN p + n ELSE Len(b))
AfterRead(b, p, n) == IF p + n <= Len(b) THEN p + n ELSE IF p <= Len(b) THEN Len(b) ELSE p

RECURSIVE Join(_)
\* b".".join(parts), line 370.
Join(parts) ==
    IF Len(parts) = 0 THEN <<>>
    ELSE IF Len(parts) = 1 THEN parts[1]
    ELSE parts[1] \o <<46>> \o Join(Tail(parts))

\* length & 0b1100_0000 (line 365) is not zero: either high bit is set.
IsPointerByte(length) == (length \div 64) % 4 # 0
\* Lines 381-382: the low 6 bits and the next byte, big-endian.
PointerOf(length, second) == (length % 64) * 256 + second

ResolverIdle ==
    /\ world = FreeWorld
    /\ stack = <<>>
    /\ pc = "done"
    /\ reply = EmptyMsg
    /\ outcome = NoOutcome
    /\ log = <<>>
    /\ socks = <<>>
    /\ rid = 0
    /\ other = NoCall
    /\ turn = 1

\* decode_name(reader) is called with the reader at some offset of a buffer.
InitDecode ==
    /\ ResolverIdle
    /\ CodecIdle
    /\ StaticIdle
    /\ buf \in Buffers
    /\ pos \in 0..Len(buf)
    /\ dstack = <<DFrame(pos, <<>>, pos)>>
    /\ dpc = "read"
    /\ dret = <<>>
    /\ derr = None

\* Line 363: reader.read(1) is empty at the end of the buffer; [0] raises.
ReadPastEnd ==
    /\ dpc = "read"
    /\ pos >= Len(buf)
    /\ dpc' = "error"
    /\ derr' = "IndexError"
    /\ UNCHANGED <<buf, pos, dstack, dret, resolverVars, codecVars, httpVars>>

\* Line 363: the zero length byte ends the loop; line 370 joins the parts.
ReadTerminator ==
    /\ dpc = "read"
    /\ pos < Len(buf)
    /\ buf[pos + 1] = 0
    /\ pos' = pos + 1
    /\ dpc' = "ret"
    /\ dret' = Join(DTop.parts)
    /\ UNCHANGED <<buf, dstack, derr, resolverVars, codecVars, httpVars>>

\* Lines 368-369: a length byte with both high bits clear; read the label.
ReadLabel ==
    /\ dpc = "read"
    /\ pos < Len(buf)
    /\ buf[pos + 1] # 0
    /\ ~IsPointerByte(buf[pos + 1])
    /\ dstack' = [dstack EXCEPT ![Len(dstack)].parts =
                      Append(@, ReadBytes(buf, pos + 1, buf[pos + 1]))]
    /\ pos' = AfterRead(buf, pos + 1, buf[pos + 1])
    /\ UNCHANGED <<buf, dpc, dret, derr, resolverVars, codecVars, httpVars>>

\* Lines 365-366 and 381-386: a pointer byte; read the second byte, save the
\* position, seek to the pointer and call decode_name there.
FollowPointer ==
    /\ dpc = "read"
    /\ pos + 1 < Len(buf)
    /\ IsPointerByte(buf[pos + 1])
    /\ Len(dstack) <= MaxHops
    /\ dstack' = Append(dstack, DFrame(PointerOf(buf[pos + 1], buf[pos + 2]), <<>>, pos + 2))
    /\ pos' = PointerOf(buf[pos + 1], buf[pos + 2])
    /\ UNCHANGED <<buf, dpc, dret, derr, resolverVars, codecVars, httpVars>>

\* Lines 381-382: the pointer's second byte is missing; struct.unpack raises.
PointerCutShort ==
    /\ dpc = "read"
    /\ pos + 1 = Len(buf)
    /\ IsPointerByte(buf[pos + 1])
    /\ pos' = pos + 1
    /\ dpc' = "error"
    /\ derr' = "struct.error"
    /\ UNCHANGED <<buf, dstack, dret, resolverVars, codecVars, httpVars>>

\* Line 387, reader.seek(current_pos): the position saved before the jump
\* (line 384, after the pointer's two bytes) is restored.
SeekBack_Skipped(f) == pos
SeekBack(f) == f.ret

\* Lines 386-388 and 366-370: the nested decode_name returned; restore the
\* position, append the result as the last part, leave the loop and return the
\* joined parts.  The outermost call's return ends the decoding.
ReturnName ==
    /\ dpc = "ret"
    /\ IF Len(dstack) = 1
       THEN /\ dpc' = "done"
            /\ UNCHANGED <<pos, dstack, dret>>
       ELSE /\ pos' = SeekBack(DTop)
            /\ dret' = Join(Append(dstack[Len(dstack) - 1].parts, dret))
            /\ dstack' = SubSeq(dstack, 1, Len(dstack) - 1)
            /\ dpc' = "ret"
    /\ UNCHANGED <<buf, derr, resolverVars, codecVars, httpVars>>

NextDecode ==
    \/ ReadPastEnd
    \/ ReadTerminator
    \/ ReadLabel
    \/ FollowPointer
    \/ PointerCutShort
    \/ ReturnName

SpecDecode == InitDecode /\ [][NextDecode]_vars

---------------------------------------------------------------------------
(* Claims about the name decoder.                                          *)

\* The length byte through which the k-th active call (k > 1) was entered is a
\* compression pointer in the contract's sense: both of its high bits are set.
EnteredByPointer(k) == buf[dstack[k].ret - 1] >= 192
AllByPointer == \A k \in 2..Len(dstack) : EnteredByPointer(k)

\* Two active decode_name calls started at the same offset: the bytes are the
\* same, so the inner call meets the same pointer again, without end.
PointerCycle ==
    /\ AllByPointer
    /\ \E i, j \in 1..Len(dstack) : i < j /\ dstack[i].start = dstack[j].start

\* C9: decoding a name whose compression pointers form a cycle (a pointer at
\* itself included) stops with the error CompressionLoop.
C9_PointerCycleYieldsCompressionLoop ==
    PointerCycle => (dpc = "error" /\ derr = "CompressionLoop")

\* C10: once a compression pointer to an offset at or past the end of the
\* buffer is met, the decoding ends with the error CompressionLoop and with no
\* other error.
C10_PointerPastEndYieldsCompressionLoop ==
    (/\ Len(dstack) > 1
     /\ AllByPointer
     /\ DTop.start >= Len(buf)
     /\ dpc \in {"done", "error"})
        => (dpc = "error" /\ derr = "CompressionLoop")

\* C17: a length byte is followed as a compression pointer only when both of
\* its high bits are set; a byte with exactly one of them set (0x40..0xBF) is
\* never followed as a pointer.
C17_PointerNeedsBothHighBits ==
    \A k \in 2..Len(dstack) : (buf[dstack[k].ret - 1] \div 64) % 4 = 3

---------------------------------------------------------------------------
(* Part 3: the message codec.  The encoder create_dns_message builds its   *)
(* message as a string of hexadecimal digits and unhexlifies it; a string  *)
(* of digits is a sequence of digit values here, a str a sequence of code  *)
(* points and a bytes object a sequence of byte values.                    *)

QCLASS_IN == 1
Dot == 46

RECURSIVE HexDigits(_, _)
\* f"{x:04x}", f"{x:02x}": the hexadecimal digits of x, at least `width`.
HexDigits(x, width) ==
    IF x < 16 /\ width <= 1 THEN <<x>>
    ELSE Append(HexDigits(x \div 16, width - 1), x % 16)

RECURSIVE DecDigits(_)
\* str(v) of a number that is not negative.
DecDigits(v) == IF v < 10 THEN <<v>> ELSE Append(DecDigits(v \div 10), v % 10)

\* s.zfill(n)
ZFill(ds, n) == IF Len(ds) >= n THEN ds ELSE [i \in 1..(n - Len(ds)) |-> 0] \o ds

RECURSIVE Base2(_)
\* int(s, base=2) of a string of the digits 0 and 1.
Base2(ds) ==
    IF Len(ds) = 0 THEN 0
    ELSE 2 * Base2(SubSeq(ds, 1, Len(ds) - 1)) + ds[Len(ds)]

RECURSIVE Hexlify(_)
\* binascii.hexlify: two digits per byte.
Hexlify(bs) ==
    IF Len(bs) = 0 THEN <<>>
    ELSE <<bs[1] \div 16, bs[1] % 16>> \o Hexlify(Tail(bs))

RECURSIVE Unhexlify(_)
\* binascii.unhexlify of a string of even length: one byte per two digits.
Unhexlify(ds) ==
    IF Len(ds) < 2 THEN <<>>
    ELSE <<ds[1] * 16 + ds[2]>> \o Unhexlify(SubSeq(ds, 3, Len(ds)))

RECURSIVE Utf8Encode(_)
\* str.encode(): one byte for a code point below 128, two below 2048 (the
\* model's names hold no code point above).
Utf8Encode(cs) ==
    IF Len(cs) = 0 THEN <<>>
    ELSE (IF cs[1] < 128 THEN <<cs[1]>>
          ELSE <<192 + (cs[1] \div 64), 128 + (cs[1] % 64)>>) \o Utf8Encode(Tail(cs))

RECURSIVE IsUtf8(_)
\* bytes.decode() succeeds: one-byte and two-byte sequences (no byte of a
\* longer sequence occurs in the names of the model's inputs).
IsUtf8(bs) ==
    IF Len(bs) = 0 THEN TRUE
    ELSE IF bs[1] < 128 THEN IsUtf8(Tail(bs))
    ELSE IF bs[1] \in 194..223 /\ Len(bs) >= 2 /\ bs[2] \in 128..191
         THEN IsUtf8(SubSeq(bs, 3, Len(bs)))
    ELSE FALSE

RECURSIVE Utf8Decode(_)
Utf8Decode(bs) ==
    IF Len(bs) = 0 THEN <<>>
    ELSE IF bs[1] < 128 THEN <<bs[1]>> \o Utf8Decode(Tail(bs))
    ELSE <<(bs[1] % 32) * 64 + (bs[2] % 64)>> \o Utf8Decode(SubSeq(bs, 3, Len(bs)))

RECURSIVE Split(_)
\* domain.split("."), line 208.
Split(s) ==
    IF \A i \in 1..Len(s) : s[i] # Dot THEN <<s>>
    ELSE LET k == CHOOSE i \in 1..Len(s) : s[i] = Dot /\ \A j \in 1..(i - 1) : s[j] # Dot
         IN  <<SubSeq(s, 1, k - 1)>> \o Split(SubSeq(s, k + 1, Len(s)))

\* Lines 37-41: the decimal strings of the flag fields, side by side.
ParamsDigits(h) ==
    DecDigits(h.qr) \o ZFill(DecDigits(h.opcode), 4) \o DecDigits(h.aa)
        \o DecDigits(h.tc) \o DecDigits(h.rd) \o DecDigits(h.ra)
        \o ZFill(DecDigits(h.z), 3) \o ZFill(DecDigits(h.rcode), 4)

\* DNSHeader.as_hex_str, lines 36-54 (for fields whose digits are binary).
Header_as_hex_str(h) ==
    HexDigits(h.id, 4) \o HexDigits(Base2(ParamsDigits(h)), 4)
        \o HexDigits(h.qdcount, 4) \o HexDigits(h.ancount, 4)
        \o HexDigits(h.nscount, 4) \o HexDigits(h.arcount, 4)

RECURSIVE EncodeParts(_)
\* Lines 209-213: per part, its length in characters and its encoded bytes.
EncodeParts(parts) ==
    IF Len(parts) = 0 THEN <<>>
    ELSE HexDigits(Len(parts[1]), 2) \o Hexlify(Utf8Encode(parts[1]))
             \o EncodeParts(Tail(parts))

\* DNSQuestion._encode_domain_name, lines 198-216.
encode_domain_name(domain) == EncodeParts(Split(domain)) \o <<0, 0>>

\* DNSQuestion.as_hex_str, lines 218-222.
Question_as_hex_str(q) ==
    encode_domain_name(q.domain) \o HexDigits(q.qtype, 4) \o HexDigits(q.qclass, 4)

\* The header of a query built with recursion desired: DNSHeader().
QueryHeader_RecursionDesired(id_) == DNSHeader(id_, 1)
\* Line 397: header = DNSHeader(rd=0).
QueryHeader(id_) == DNSHeader(id_, 0)

\* create_dns_message, lines 391-404: the digits of the message.
MessageHex(domain, id_) ==
    Header_as_hex_str(QueryHeader(id_))
        \o Question_as_hex_str([domain |-> domain, qtype |-> QTYPE_A, qclass |-> QCLASS_IN])

---------------------------------------------------------------------------
(* The message decoder, DNSMessage.from_bytes (dns_raw.py:292-305), with   *)
(* DNSHeader.from_bytes, DNSQuestion.from_bytes and DNSRecord.from_bytes.  *)
(* One step decodes the header, or the fixed fields of a question or a     *)
(* record; the names are decoded by the steps of Part 2.                   *)

RECURSIVE BigEndian(_)
\* struct's "!H" and "!I": the bytes as a big-endian number.
BigEndian(bs) ==
    IF Len(bs) = 0 THEN 0
    ELSE 256 * BigEndian(SubSeq(bs, 1, Len(bs) - 1)) + bs[Len(bs)]

RECURSIVE Unpack(_, _)
\* struct.unpack: the raw bytes cut into fields of the sizes of the format.
Unpack(sizes, raw) ==
    IF Len(sizes) = 0 THEN <<>>
    ELSE <<SubSeq(raw, 1, sizes[1])>> \o Unpack(Tail(sizes), SubSeq(raw, sizes[1] + 1, Len(raw)))

RECURSIVE Sum(_)
Sum(ns) == IF Len(ns) = 0 THEN 0 ELSE ns[1] + Sum(Tail(ns))

RECURSIVE Pow2(_)
Pow2(n) == IF n = 0 THEN 1 ELSE 2 * Pow2(n - 1)

HeaderFormat == <<2, 2, 2, 2, 2, 2>>      \* "!H2sHHHH", line 90
QuestionFormat == <<2, 2>>                \* "!HH", line 228
RecordFormat == <<2, 2, 4, 2>>            \* "!HHIH", line 258

\* DNSHeaderBitFields._fields_ (lines 133-142): the widths of qr, opcode, aa,
\* tc, rd, ra, z and rcode, in the order of their declaration.
FieldWidths_Reversed == <<4, 3, 1, 1, 1, 1, 4, 1>>
FieldWidths == <<1, 4, 1, 1, 1, 1, 3, 4>>

\* The k-th bit field of a ctypes.BigEndianStructure over one 16-bit unit:
\* the fields are laid out from the most significant bit down.
BitField(raw, k) ==
    (BigEndian(raw) \div Pow2(16 - Sum(SubSeq(FieldWidths, 1, k)))) % Pow2(FieldWidths[k])

\* DNSHeader.from_bytes, lines 85-124, of 12 raw bytes.
Header_from_bytes(raw) ==
    LET f == Unpack(HeaderFormat, raw)
    IN  [id |-> BigEndian(f[1]),
         qr |-> BitField(f[2], 1), opcode |-> BitField(f[2], 2), aa |-> BitField(f[2], 3),
         tc |-> BitField(f[2], 4), rd |-> BitField(f[2], 5), ra |-> BitField(f[2], 6),
         z |-> BitField(f[2], 7), rcode |-> BitField(f[2], 8),
         qdcount |-> BigEndian(f[3]), ancount |-> BigEndian(f[4]),
         nscount |-> BigEndian(f[5]), arcount |-> BigEndian(f[6])]

\* The address of a record: the text inet_ntop renders is kept as the family
\* and the packed bytes it renders, a name as its code points.
Address(form, value) == [form |-> form, value |-> value]
\* DNSRecord(name, type_, class_, ttl, rdata, address), line 276.
DNSRecord(c, address) ==
    [name |-> c.name, type |-> c.type, class |-> c.class, ttl |-> c.ttl,
     rdata |-> c.rdata, address |-> address]

\* Lines 295-298: the list comprehensions of from_bytes decode the sections
\* in order, each until it holds as many entries as the header counts.
NextSection(h, s) ==
    IF Len(s.questions) < h.qdcount THEN "questions"
    ELSE IF Len(s.answers) < h.ancount THEN "answers"
    ELSE IF Len(s.authorities) < h.nscount THEN "authorities"
    ELSE IF Len(s.additionals) < h.arcount THEN "additionals"
    ELSE "done"

\* A decoder that returns the message once the buffer is used up, whatever
\* the header counts.
Proceed_StopAtEnd(h, s, p) ==
    /\ pos' = p
    /\ dret' = <<>>
    /\ IF NextSection(h, s) = "done" \/ p >= Len(buf)
       THEN /\ mpc' = "done"
            /\ dpc' = "idle"
            /\ dstack' = <<>>
       ELSE /\ mpc' = "name"
            /\ dpc' = "read"
            /\ dstack' = <<DFrame(p, <<>>, p)>>

\* After the header or an entry: the next entry's name is decoded from
\* position p, or from_bytes returns the message.
Proceed(h, s, p) ==
    /\ pos' = p
    /\ dret' = <<>>
    /\ IF NextSection(h, s) = "done"
       THEN /\ mpc' = "done"
            /\ dpc' = "idle"
            /\ dstack' = <<>>
       ELSE /\ mpc' = "name"
            /\ dpc' = "read"
            /\ dstack' = <<DFrame(p, <<>>, p)>>

\* An exception raised by from_bytes itself, the reader left at p.
RaiseAt(e, p) ==
    /\ mpc' = "error"
    /\ derr' = e
    /\ pos' = p
    /\ UNCHANGED <<sections, dpc, dstack, dret>>

\* An entry is complete: it joins its section.
Finish(entry, p) ==
    LET s == [sections EXCEPT ![NextSection(hdr, sections)] = Append(@, entry)]
    IN  /\ sections' = s
        /\ Proceed(hdr, s, p)
        /\ UNCHANGED derr

\* DNSHeader.from_bytes: read(12) and unpack, which raises on fewer bytes.
DecodeHeader ==
    /\ mpc = "header"
    /\ LET raw == ReadBytes(buf, pos, Sum(HeaderFormat))
       IN  IF Len(raw) # Sum(HeaderFormat)
           THEN /\ RaiseAt("struct.error", AfterRead(buf, pos, Sum(HeaderFormat)))
                /\ UNCHANGED hdr
           ELSE /\ hdr' = Header_from_bytes(raw)
                /\ Proceed(Header_from_bytes(raw), sections, pos + Sum(HeaderFormat))
                /\ UNCHANGED <<sections, derr>>
    /\ UNCHANGED <<buf, cur, minput, default_id, draws, built, resolverVars, httpVars>>

\* DNSQuestion.from_bytes, lines 226-229, once its name is decoded.
QuestionFields ==
    /\ mpc = "name"
    /\ dpc = "done"
    /\ NextSection(hdr, sections) = "questions"
    /\ LET data == ReadBytes(buf, pos, Sum(QuestionFormat))
           after == AfterRead(buf, pos, Sum(QuestionFormat))
       IN  IF Len(data) # Sum(QuestionFormat) THEN RaiseAt("struct.error", after)
           ELSE IF ~IsUtf8(dret) THEN RaiseAt("UnicodeDecodeError", after)
           ELSE LET f == Unpack(QuestionFormat, data)
                IN  Finish([domain |-> Utf8Decode(dret), qtype |-> BigEndian(f[1]),
                            qclass |-> BigEndian(f[2])], after)
    /\ UNCHANGED <<buf, hdr, cur, minput, default_id, draws, built, resolverVars, httpVars>>

\* DNSRecord.from_bytes, lines 254-276, once its name is decoded: the fixed
\* fields, the record data and the address, but for the name of an NS record.
RecordFields ==
    /\ mpc = "name"
    /\ dpc = "done"
    /\ NextSection(hdr, sections) \in {"answers", "authorities", "additionals"}
    /\ LET data == ReadBytes(buf, pos, Sum(RecordFormat))
           rdata_pos == AfterRead(buf, pos, Sum(RecordFormat))
       IN  IF Len(data) # Sum(RecordFormat)
           THEN /\ RaiseAt("struct.error", rdata_pos)
                /\ UNCHANGED cur
           ELSE LET f == Unpack(RecordFormat, data)
                    c == [name |-> dret, type |-> BigEndian(f[1]), class |-> BigEndian(f[2]),
                          ttl |-> BigEndian(f[3]), rdlength |-> BigEndian(f[4]),
                          rdata_pos |-> rdata_pos,
                          rdata |-> ReadBytes(buf, rdata_pos, BigEndian(f[4]))]
                    after == AfterRead(buf, rdata_pos, c.rdlength)
                IN  /\ cur' = c
                    /\ IF c.type = QTYPE_A
                       THEN IF Len(c.rdata) = 4
                            THEN Finish(DNSRecord(c, Address("inet", c.rdata)), after)
                            ELSE RaiseAt("ValueError", after)
                       ELSE IF c.type = QTYPE_AAAA
                       THEN IF Len(c.rdata) = 16
                            THEN Finish(DNSRecord(c, Address("inet6", c.rdata)), after)
                            ELSE RaiseAt("ValueError", after)
                       ELSE IF c.type = QTYPE_NS
                       THEN /\ mpc' = "rdata"
                            /\ pos' = rdata_pos
                            /\ dpc' = "read"
                            /\ dstack' = <<DFrame(rdata_pos, <<>>, rdata_pos)>>
                            /\ dret' = <<>>
                            /\ UNCHANGED <<sections, derr>>
                       ELSE Finish(DNSRecord(c, Address("unknown", <<>>)), after)
    /\ UNCHANGED <<buf, hdr, minput, default_id, draws, built, resolverVars, httpVars>>

\* Lines 271-272 and 276: the name decoded from the record data of an NS
\* record is the address; the reader stays where the name ended.
NameserverRdata ==
    /\ mpc = "rdata"
    /\ dpc = "done"
    /\ IF ~IsUtf8(dret) THEN RaiseAt("UnicodeDecodeError", pos)
       ELSE Finish(DNSRecord(cur, Address("name", Utf8Decode(dret))), pos)
    /\ UNCHANGED <<buf, hdr, cur, minput, default_id, draws, built, resolverVars, httpVars>>

---------------------------------------------------------------------------
(* The inputs of the codec: domains given to the encoder, whose message is *)
(* decoded again, and reply buffers given to the decoder.                  *)

MaxMsgRecs == 2
MaxBuilt == 2
MaxLabel == 63

\* "a", "A.b", "é", "a.", "a..b", and labels of 63 and of 64 letters.
Domains ==
    {<<97>>, <<65, Dot, 98>>, <<233>>, <<97, Dot>>, <<97, Dot, Dot, 98>>,
     [i \in 1..MaxLabel |-> 97], [i \in 1..(MaxLabel + 1) |-> 97]}

U16(v) == <<v \div 256, v % 256>>

RECURSIVE Concat(_)
Concat(ss) == IF Len(ss) = 0 THEN <<>> ELSE ss[1] \o Concat(Tail(ss))

\* A reply on the wire: the question "a" A IN at offset 12, and records
\* named by a compression pointer to offset 12.
WireName == <<1, 97, 0>>
WireQuestion == WireName \o U16(QTYPE_A) \o U16(QCLASS_IN)
NamePointer == <<192, 12>>
WireRecord(type, rdlength, rdata) ==
    NamePointer \o U16(type) \o U16(QCLASS_IN) \o <<0, 0, 0, 60>> \o U16(rdlength) \o rdata
WireMessage(id_, flags, counts, body) ==
    U16(id_) \o flags \o U16(counts[1]) \o U16(counts[2]) \o U16(counts[3])
        \o U16(counts[4]) \o body

\* The name "ns.a": a label and a pointer to the question's name.
NsName == <<2, 110, 115>> \o NamePointer
ARecord == WireRecord(QTYPE_A, 4, <<93, 184, 216, 34>>)
NSRecord == WireRecord(QTYPE_NS, Len(NsName), NsName)
CNAMERecord == WireRecord(QTYPE_CNAME, Len(NamePointer), NamePointer)
AAAARecord == WireRecord(QTYPE_AAAA, 16, [i \in 1..16 |-> i])
RecordPool == {ARecord, NSRecord, CNAMERecord}

\* Records whose declared data length is not the length of what they hold: an
\* NS record with two more bytes after its name, an A record of five bytes.
NSPadded == WireRecord(QTYPE_NS, Len(NsName) + 2, NsName \o <<0, 0>>)
ALong == WireRecord(QTYPE_A, 5, <<93, 184, 216, 34, 0>>)

ResponseFlags == <<132, 0>>
\* The ways to give n records to the answer, authority and additional sections.
Layouts(n) == {sp \in (0..n) \X (0..n) \X (0..n) : sp[1] + sp[2] + sp[3] = n}

Reply(counts, recs) ==
    WireMessage(4660, ResponseFlags, counts, WireQuestion \o Concat(recs))

WellFormed ==
    UNION {{Reply(<<1>> \o sp, recs) : sp \in Layouts(Len(recs))} :
               recs \in SeqsUpTo(RecordPool, MaxMsgRecs)}
        \cup {Reply(<<1, 0, 0, 1>>, <<AAAARecord>>)}

\* A record section declared one entry longer than the buffer holds.
Inflated ==
    UNION {{Reply([(<<1>> \o sp) EXCEPT ![k] = @ + 1], recs) :
                sp \in Layouts(Len(recs)), k \in 2..4} :
               recs \in SeqsUpTo(RecordPool, MaxMsgRecs)}

BadRdata ==
    {Reply(<<1, 0, 1, 0>>, <<NSPadded>>), Reply(<<1, 0, 1, 1>>, <<NSPadded, ARecord>>),
     Reply(<<1, 1, 0, 0>>, <<ALong>>)}

\* Headers alone, for the flag bits, the id and the counts.
FlagBytes == {0, 1, 2, 4, 8, 16, 32, 64, 128, 255, 133, 122}
CountTuples == {<<0, 0, 0, 0>>, <<1, 2, 3, 4>>, <<256, 512, 768, 1024>>}
Headers ==
    {WireMessage(i, <<b0, b1>>, cs, <<>>) :
         i \in TxIds \cup {258}, b0 \in FlagBytes, b1 \in FlagBytes, cs \in CountTuples}

Input(kind, full, cut) == [kind |-> kind, domain |-> <<>>, full |-> full, cut |-> cut]

CodecInputs ==
    {Input("query", <<>>, 0)}
        \cup {Input("whole", m, Len(m)) : m \in WellFormed}
        \cup UNION {{Input("cut", m, c) : c \in 0..(Len(m) - 1)} : m \in WellFormed}
        \cup {Input("inflated", m, Len(m)) : m \in Inflated}
        \cup {Input("rdata", m, Len(m)) : m \in BadRdata}
        \cup {Input("header", m, Len(m)) : m \in Headers}

\* The module is imported (random.randint is called once, for the default of
\* DNSHeader.id); a query is to be built, or DNSMessage.from_bytes is called
\* on the bytes of a reply.
InitCodec ==
    /\ ResolverIdle
    /\ StaticIdle
    /\ minput \in CodecInputs
    /\ buf = SubSeq(minput.full, 1, minput.cut)
    /\ pos = 0
    /\ mpc = (IF minput.kind = "query" THEN "start" ELSE "header")
    /\ hdr = ZeroHeader
    /\ sections = NoSections
    /\ cur = NoRecord
    /\ dstack = <<>>
    /\ dpc = "idle"
    /\ dret = <<>>
    /\ derr = None
    /\ default_id \in (IF minput.kind = "query" THEN TxIds ELSE {4660})
    /\ draws = 1
    /\ built = <<>>

\* from_bytes has returned or raised.
CodecEnded == mpc \in {"done", "error"} \/ dpc = "error"
CodecFailed == mpc = "error" \/ dpc = "error"

\* create_dns_message(domain), lines 391-404 (the digits are of even number
\* for labels shorter than 256 characters), and DNSMessage.from_bytes called
\* on a reader over the message.  The header's id is the class default.
CreateMessage ==
    /\ minput.kind = "query"
    /\ mpc = "start" \/ CodecEnded
    /\ Len(built) < MaxBuilt
    /\ \E d \in Domains :
         /\ minput' = [minput EXCEPT !.domain = d]
         /\ buf' = Unhexlify(MessageHex(d, default_id))
    /\ built' = Append(built, BigEndian(SubSeq(buf', 1, 2)))
    /\ pos' = 0
    /\ mpc' = "header"
    /\ hdr' = ZeroHeader
    /\ sections' = NoSections
    /\ cur' = NoRecord
    /\ dstack' = <<>>
    /\ dpc' = "idle"
    /\ dret' = <<>>
    /\ derr' = None
    /\ UNCHANGED <<default_id, draws, resolverVars, httpVars>>

NextCodec ==
    \/ CreateMessage
    \/ DecodeHeader
    \/ QuestionFields
    \/ RecordFields
    \/ NameserverRdata
    \/ NextDecode

SpecCodec == InitCodec /\ [][NextCodec]_vars

---------------------------------------------------------------------------
(* Claims about the message codec.                                         *)

\* The encoded lengths of the labels of a domain, as split at its dots.
LabelBytes(d) == [i \in 1..Len(Split(d)) |-> Len(Utf8Encode(Split(d)[i]))]
\* Every label holds 1 to 63 bytes.
ValidName(d) == \A i \in 1..Len(LabelBytes(d)) : LabelBytes(d)[i] \in 1..MaxLabel
\* A label longer than 63 bytes, or an empty label that is not the last.
MalformedName(d) ==
    \E i \in 1..Len(LabelBytes(d)) :
        \/ LabelBytes(d)[i] > MaxLabel
        \/ LabelBytes(d)[i] = 0 /\ i < Len(LabelBytes(d))

\* A query has been built from minput.domain and is in buf.
QueryBuilt == minput.kind = "query" /\ mpc # "start"

\* C11: decoding a well-formed message cut at any point before its end yields
\* the error TruncatedMessage; it neither succeeds nor fails with another
\* error.
C11_TruncationYieldsTruncatedMessage ==
    (minput.kind = "cut" /\ CodecEnded)
        => (CodecFailed /\ derr = "TruncatedMessage")

\* C12: the message the encoder builds for a valid domain name (labels of 1 to
\* 63 bytes) decodes to exactly one question, with the same name, letter case
\* kept, and the type and class that were encoded.
C12_QueryRoundTrip ==
    (QueryBuilt /\ ValidName(minput.domain) /\ CodecEnded)
        => (/\ mpc = "done"
            /\ sections.questions =
                   <<[domain |-> minput.domain, qtype |-> QTYPE_A, qclass |-> QCLASS_IN]>>)

\* The 16-bit big-endian value at a byte offset of the buffer.
WordAt(offset) == buf[offset + 1] * 256 + buf[offset + 2]

\* C13: every query the encoder builds has the QR flag clear, recursion
\* desired clear, a question count of 1 and the other three counts 0, and after
\* its header holds the encoding of one question and nothing more.
C13_QueryShape ==
    QueryBuilt =>
        (/\ Len(buf) > 12
         /\ (WordAt(2) \div 32768) % 2 = 0
         /\ (WordAt(2) \div 256) % 2 = 0
         /\ WordAt(4) = 1
         /\ WordAt(6) = 0 /\ WordAt(8) = 0 /\ WordAt(10) = 0
         /\ SubSeq(buf, 13, Len(buf)) =
                Unhexlify(Question_as_hex_str([domain |-> minput.domain,
                                               qtype |-> QTYPE_A, qclass |-> QCLASS_IN])))

\* A query for "A.b" has been built and its header decoded.
C13_Witness ==
    /\ QueryBuilt
    /\ minput.domain = <<65, Dot, 98>>
    /\ mpc = "name"
    /\ hdr.qdcount = 1

\* C14: each call of the encoder draws the transaction id of its query anew
\* from the 16-bit range (so that the ids of two queries of one process are
\* not bound to be equal).
C14_EachQueryDrawsItsId ==
    [][(Len(built') > Len(built)) => (draws' = draws + 1)]_vars

\* C15: the encoder rejects, with the error MalformedName and without building
\* any byte, a domain with a label longer than 63 bytes or with an empty label
\* that is not the trailing root.
C15_EncoderRejectsMalformedNames ==
    (QueryBuilt /\ MalformedName(minput.domain))
        => (derr = "MalformedName" /\ buf = <<>>)

\* The header of the buffer has been decoded.
HeaderDecoded == mpc \in {"name", "rdata", "done", "error"} /\ Len(buf) >= 12

\* C16: the header decoder reads qr from bit 15 of the big-endian flag word,
\* opcode from bits 14-11, aa from bit 10, tc from bit 9, rd from bit 8, ra
\* from bit 7, z from bits 6-4 and rcode from bits 3-0, and the id and the four
\* counts from the big-endian 16-bit values at the offsets 0, 4, 6, 8 and 10.
C16_HeaderLayout ==
    HeaderDecoded =>
        (/\ hdr.qr = (WordAt(2) \div 32768) % 2
         /\ hdr.opcode = (WordAt(2) \div 2048) % 16
         /\ hdr.aa = (WordAt(2) \div 1024) % 2
         /\ hdr.tc = (WordAt(2) \div 512) % 2
         /\ hdr.rd = (WordAt(2) \div 256) % 2
         /\ hdr.ra = (WordAt(2) \div 128) % 2
         /\ hdr.z = (WordAt(2) \div 16) % 8
         /\ hdr.rcode = WordAt(2) % 16
         /\ hdr.id = WordAt(0)
         /\ hdr.qdcount = WordAt(4)
         /\ hdr.ancount = WordAt(6)
         /\ hdr.nscount = WordAt(8)
         /\ hdr.arcount = WordAt(10))

\* A header with the flag bytes 85 7A and the counts 1, 2, 3, 4 is decoded.
C16_Witness ==
    /\ HeaderDecoded
    /\ hdr.qr = 1 /\ hdr.opcode = 0 /\ hdr.aa = 1 /\ hdr.tc = 0 /\ hdr.rd = 1
    /\ hdr.ra = 0 /\ hdr.z = 7 /\ hdr.rcode = 10
    /\ hdr.id = 258 /\ hdr.qdcount = 1 /\ hdr.arcount = 4

\* C18: when a message is decoded with success, each of its four sections
\* holds as many entries as the header counts; a buffer that holds fewer
\* entries than its header declares is never decoded with success.
C18_SectionsMatchCounts ==
    /\ (mpc = "done") =>
           (/\ Len(sections.questions) = hdr.qdcount
            /\ Len(sections.answers) = hdr.ancount
            /\ Len(sections.authorities) = hdr.nscount
            /\ Len(sections.additionals) = hdr.arcount)
    /\ (minput.kind = "inflated") => (mpc # "done")

\* A reply with an answer and an authority record is decoded with success.
C18_Witness ==
    /\ minput.kind = "whole"
    /\ mpc = "done"
    /\ Len(sections.questions) = 1
    /\ Len(sections.answers) = 1
    /\ Len(sections.authorities) = 1

RecordCount ==
    Len(sections.answers) + Len(sections.authorities) + Len(sections.additionals)

\* C19: once a resource record is decoded (its declared data lying within the
\* buffer), the read position is the start of its record data plus its
\* declared data length.
C19_RecordEndsAtDeclaredLength ==
    [][(/\ RecordCount' > RecordCount
        /\ cur'.rdata_pos + cur'.rdlength <= Len(buf))
           => (pos' = cur'.rdata_pos + cur'.rdlength)]_vars

---------------------------------------------------------------------------
(* Part 4. Sockets, errors, transaction ids and interleaved calls of       *)
(* resolve; the library resolver; the static file server.                  *)

\* C21: on every exit path of send_udp_message (reply received, send
\* failure, receive failure) the socket is closed: a resolution never has
\* more than one socket open, the one open socket is that of the query the
\* innermost call waits on, and none is open once the resolution has ended.
C21_SocketsAlwaysClosed ==
    /\ Len(socks) <= 1
    /\ socks # <<>> => (pc = "wait" /\ socks = <<Top.nameserver>>)
    /\ pc = "done" => socks = <<>>

\* A receive failure ended the resolution, and its socket is closed.
C21_Witness == pc = "done" /\ outcome = Raised("OSError") /\ socks = <<>> /\ rid # 0

\* C23: an error in any step (sending, receiving, decoding, no way forward,
\* a failed nested resolution) ends the whole resolution: with it every
\* active call is left, the error is the outcome the top-level caller gets,
\* and no step (so no further query) follows it.
C23_ErrorEndsResolution ==
    [][/\ outcome.kind # "raised"
       /\ outcome'.kind = "raised" => (pc' = "done" /\ stack' = <<>> /\ socks' = <<>>)]_vars

\* A datagram received after an earlier reply had been decoded did not
\* decode, and the resolution has ended with that error.
C23_Witness ==
    /\ outcome = Raised("struct.error")
    /\ pc = "done"
    /\ stack = <<>>
    /\ reply # EmptyMsg

\* C24: at most one query is outstanding at any time: a query is sent only
\* when no earlier query awaits its reply, and the call then waits.
C24_OneQueryOutstanding ==
    [][Len(socks') > Len(socks) => (socks = <<>> /\ pc = "send" /\ pc' = "wait")]_vars

\* A second query is outstanding, after the reply to the first was decoded.
C24_Witness == pc = "wait" /\ Len(socks) = 1 /\ reply # EmptyMsg /\ rid # 0

\* C28: the resolver acts on a received datagram (returns its answer,
\* follows its glue or its delegation, or gives up on it) only if the
\* datagram's transaction id is the id of the query it sent.
C28_ReplyIdMatchesQuery ==
    [][(pc = "decide" /\ pc' # "decide") => rid = default_id]_vars

---------------------------------------------------------------------------
(* A transport with a server that never replies.  The root server          *)
(* delegates as the stub does; in a world of tail "root" it stays silent   *)
(* when asked for ChainName(n), in a world of tail "glue" it gives the     *)
(* glue address for ChainName(n) and the server at that address stays      *)
(* silent.                                                                 *)

SilentWorlds == {[kind |-> "silent", n |-> k, tail |-> t] : k \in 0..MaxChain, t \in {"root", "glue"}}

Silent(w, server, name) ==
    IF w.tail = "root"
    THEN server = RootServer /\ ChainIndex(name) = w.n
    ELSE server # RootServer

\* Lines 420 and 439: recvfrom returns the datagram of a server that replies.
\* The socket has no timeout (lines 417-421 never call settimeout), so while
\* no datagram arrives recvfrom does not return and the call takes no step.
ReceiveUnlessSilent ==
    /\ pc = "wait"
    /\ world.kind = "silent"
    /\ ~Silent(world, Top.nameserver, Top.domain)
    /\ reply' = StubReply(world, Top.nameserver, Top.domain)
    /\ rid' = default_id
    /\ socks' = CloseSocket(socks)
    /\ pc' = "decide"
    /\ UNCHANGED <<world, stack, outcome, log, pairVars, decoderVars, codecVars, httpVars>>

InitSilent == InitResolver(SilentWorlds, {ChainName(0)})

NextSilent ==
    \/ SendQuery
    \/ ReceiveUnlessSilent
    \/ FollowGlue
    \/ ResolveNameserver

SpecSilent == InitSilent /\ [][NextSilent]_vars

\* The program runs on: a step that can be taken is taken.
FairSilent == SpecSilent /\ WF_vars(NextSilent)

\* C22: when the queried server never replies, the resolution ends with an
\* error (the contract's Timeout).
C22_SilenceEndsInTimeout == <>(pc = "done" /\ outcome.kind = "raised")

---------------------------------------------------------------------------
(* Two calls of resolve interleaved.  The running call's locals are the    *)
(* resolver's variables; the locals of the call that is not running are    *)
(* kept in `other`.                                                        *)

MaxPairChain == 3

PairWorlds ==
    {[kind |-> "stub", n |-> k, tail |-> t] : k \in 0..MaxPairChain, t \in Tails \ {"loop"}}

\* The domain each of the two calls resolves.
PairDomain(c) == ChainName(c - 1)

\* The locals of the running call (lines 434, 439) with what it printed and
\* the socket it holds.
Context ==
    [stack |-> stack, pc |-> pc, reply |-> reply, outcome |-> outcome, log |-> log,
     socks |-> socks, rid |-> rid]

NewCall(d) ==
    [stack |-> <<Frame(d, RootServer)>>, pc |-> "send", reply |-> EmptyMsg,
     outcome |-> NoOutcome, log |-> <<>>, socks |-> <<>>, rid |-> 0]

\* nameserver and received_msg are locals of resolve (lines 434 and 439) and
\* sock is a local of send_udp_message (line 417): a call that resumes finds
\* them as it left them.
LocalsOf_SharedReply(c) == [c EXCEPT !.reply = reply]
LocalsOf(c) == c

\* The scheduler stops the running call and resumes the other one.
SwitchCall ==
    /\ other.pc \notin {"none", "done"}
    /\ other' = Context
    /\ turn' = 3 - turn
    /\ stack' = LocalsOf(other).stack
    /\ pc' = LocalsOf(other).pc
    /\ reply' = LocalsOf(other).reply
    /\ outcome' = LocalsOf(other).outcome
    /\ log' = LocalsOf(other).log
    /\ socks' = LocalsOf(other).socks
    /\ rid' = LocalsOf(other).rid
    /\ UNCHANGED <<world, decoderVars, codecVars, httpVars>>

InitPair ==
    /\ world \in PairWorlds
    /\ stack = NewCall(PairDomain(1)).stack
    /\ pc = "send"
    /\ reply = EmptyMsg
    /\ outcome = NoOutcome
    /\ log = <<>>
    /\ socks = <<>>
    /\ rid = 0
    /\ other = NewCall(PairDomain(2))
    /\ turn = 1
    /\ DecoderIdle
    /\ CodecLoaded
    /\ StaticIdle

NextPair ==
    \/ SendQuery
    \/ SendFails
    \/ ReceiveStubReply
    \/ ReturnAnswer
    \/ FollowGlue
    \/ ResolveNameserver
    \/ CantResolve
    \/ SwitchCall

SpecPair == InitPair /\ [][NextPair]_vars

\* resolve (lines 427-448) run alone against the stub w, as a function: the
\* outcome of the call and the lines it prints, after the lines lg.
RECURSIVE resolve_from(_, _, _, _)
resolve_from(w, domain, nameserver, lg) ==
    LET printed == Append(lg, <<nameserver, domain>>) IN
    IF ~IsIPv4(nameserver)
    THEN [outcome |-> Raised("socket.gaierror"), log |-> printed]
    ELSE LET received_msg == StubReply(w, nameserver, domain) IN
         IF Len(received_msg.answers) > 0
         THEN [outcome |-> Returned(received_msg.answers[1].address), log |-> printed]
         ELSE IF Truth(nameserver_ip(received_msg))
         THEN resolve_from(w, domain, nameserver_ip(received_msg), printed)
         ELSE IF Truth(nameserver_name(received_msg))
         THEN LET nested == resolve_from(w, nameserver_name(received_msg), RootServer, printed)
              IN  IF nested.outcome.kind = "returned"
                  THEN resolve_from(w, domain, nested.outcome.value, nested.log)
                  ELSE nested
         ELSE [outcome |-> Raised("Exception"), log |-> printed]

resolve(w, domain) == resolve_from(w, domain, RootServer, <<>>)

IsPrefix(a, b) == Len(a) <= Len(b) /\ SubSeq(b, 1, Len(a)) = a

CallState(c) == IF c = turn THEN Context ELSE other

\* C25: two calls of resolve that run interleaved share no state: each
\* queries the servers it queries when it runs alone, in the same order, and
\* ends with the outcome it has when it runs alone.
C25_InterleavedCallsAreIndependent ==
    \A c \in {1, 2} :
        /\ IsPrefix(CallState(c).log, resolve(world, PairDomain(c)).log)
        /\ CallState(c).pc = "done"
           => /\ CallState(c).outcome = resolve(world, PairDomain(c)).outcome
              /\ CallState(c).log = resolve(world, PairDomain(c)).log

\* Both calls are under way: the running call was resumed and holds the
\* reply it received in a nested call, the stopped call holds another reply.
C25_Witness ==
    /\ turn = 1
    /\ pc = "decide"
    /\ other.pc = "decide"
    /\ Len(stack) >= 2
    /\ Len(other.log) >= 2
    /\ reply # other.reply

---------------------------------------------------------------------------
(* The name decoder's treatment of pointers.                               *)

RECURSIVE LabelsSpan(_)
\* The bytes the labels `parts` take in the buffer, length bytes included.
LabelsSpan(parts) ==
    IF parts = <<>> THEN 0 ELSE 1 + Len(Head(parts)) + LabelsSpan(Tail(parts))

\* The offset of the pointer the call of frame f met: its labels lie between
\* the offset it started at and the pointer.
PointerAt(f) == f.start + LabelsSpan(f.parts)

\* C26: a call that meets a pointer decodes the name at the pointed offset;
\* when that name is decoded (it may itself have ended in a pointer), the
\* call appends it as the last part and returns at once, reading no further
\* label, and the read position is two bytes past the pointer's first byte,
\* wherever the pointed name ended.
C26_PointerEndsName ==
    [][/\ Len(dstack') = Len(dstack) + 1
          => (/\ pos' = PointerOf(buf[pos + 1], buf[pos + 2])
              /\ dstack'[Len(dstack')].start = pos'
              /\ dstack'[Len(dstack')].parts = <<>>
              /\ pos = PointerAt(dstack[Len(dstack)]))
       /\ Len(dstack') = Len(dstack) - 1
          => (/\ dpc' = "ret"
              /\ dret' = Join(Append(dstack'[Len(dstack')].parts, dret))
              /\ dstack'[Len(dstack')] = dstack[Len(dstack')]
              /\ pos' = PointerAt(dstack'[Len(dstack')]) + 2)]_vars

\* The name at offset 0 of 01 00 C0 01 was decoded: one label, then a pointer
\* to offset 1, where the name is empty and ends at offset 2; the position
\* is 4, two bytes past the pointer at offset 2.
C26_Witness ==
    /\ buf = <<1, 0, 192, 1>>
    /\ dpc = "done"
    /\ dret = <<0, 46>>
    /\ pos = 4
    /\ dstack[1].start = 0

---------------------------------------------------------------------------
(* The library resolver (dns_resolver.py), on the same decoded replies.    *)

\* get_answer (dns_resolver.py:41-49): the address of the first A record of
\* the answer section, or None.
get_answer(m) == FirstOfType(m.answers, {QTYPE_A})
\* get_glue (dns_resolver.py:52-68): the first A record of the additionals.
get_glue(m) == FirstOfType(m.additionals, {QTYPE_A})
\* get_nameserver (dns_resolver.py:71-79): the first NS record of the authorities.
get_nameserver(m) == FirstOfType(m.authorities, {QTYPE_NS})

\* One iteration of the loop of dns_resolver.resolve (lines 15-33) on the
\* reply m: return the answer, query the glue address next, or call resolve
\* on the name get_nameserver gave; with no NS record that name is None and
\* the nested call cannot build its query.
LibDecision(m) ==
    IF get_answer(m) # None THEN [kind |-> "return", value |-> get_answer(m)]
    ELSE IF get_glue(m) # None THEN [kind |-> "query", value |-> get_glue(m)]
    ELSE IF get_nameserver(m) # None THEN [kind |-> "nested", value |-> get_nameserver(m)]
    ELSE [kind |-> "fail", value |-> None]

\* C29: on every decoded reply the step dns_raw.resolve takes is the step
\* dns_resolver.resolve takes: both return the same address, both query the
\* same server next, both resolve the same nameserver name, or both fail.
C29_RawAndLibraryAgree ==
    [][pc = "decide" =>
        LET d == LibDecision(reply) IN
        CASE d.kind = "return" ->
                /\ Len(stack') < Len(stack)
                /\ IF Len(stack) = 1
                   THEN outcome' = Returned(d.value)
                   ELSE stack'[Len(stack')].nameserver = d.value
          [] d.kind = "query" ->
                /\ pc' = "send"
                /\ stack' = [stack EXCEPT ![Len(stack)] = Frame(@.domain, d.value)]
          [] d.kind = "nested" ->
                /\ pc' = "send"
                /\ stack' = Append(stack, Frame(d.value, RootServer))
          [] OTHER ->
                /\ pc' = "done"
                /\ outcome'.kind = "raised"]_vars

---------------------------------------------------------------------------
(* A header encoded by DNSHeader.as_hex_str and decoded again by           *)
(* DNSHeader.from_bytes.                                                   *)

\* Headers whose fields are within their widths: every combination of the
\* one-bit flags, opcodes and rcodes of one and of two decimal digits, and
\* the least and the greatest z.
HeaderPool ==
    {[id |-> i, qr |-> f[1], opcode |-> o, aa |-> f[2], tc |-> f[3], rd |-> f[4],
      ra |-> f[5], z |-> zz, rcode |-> r, qdcount |-> cs[1], ancount |-> cs[2],
      nscount |-> cs[3], arcount |-> cs[4]] :
        i \in TxIds, f \in [1..5 -> {0, 1}], o \in {0, 1, 2, 10, 15}, zz \in {0, 1, 7},
        r \in {0, 1, 3, 11}, cs \in CountTuples}

\* int(params, base=2), line 44, accepts the digits 0 and 1 only.
IsBinary(ds) == \A i \in 1..Len(ds) : ds[i] \in {0, 1}

InitHeader ==
    /\ ResolverIdle
    /\ StaticIdle
    /\ minput \in {[kind |-> "encode", header |-> h] : h \in HeaderPool}
    /\ buf = <<>>
    /\ pos = 0
    /\ mpc = "encode"
    /\ hdr = ZeroHeader
    /\ sections = NoSections
    /\ cur = NoRecord
    /\ dstack = <<>>
    /\ dpc = "idle"
    /\ dret = <<>>
    /\ derr = None
    /\ default_id = 4660
    /\ draws = 1
    /\ built = <<>>

\* header.as_hex_str() and binascii.unhexlify of its digits (lines 36-54,
\* 404): int(params, base=2) raises ValueError on a digit above 1.
EncodeHeader ==
    /\ mpc = "encode"
    /\ IF IsBinary(ParamsDigits(minput.header))
       THEN /\ buf' = Unhexlify(Header_as_hex_str(minput.header))
            /\ mpc' = "decode"
            /\ derr' = derr
       ELSE /\ buf' = buf
            /\ mpc' = "error"
            /\ derr' = "ValueError"
    /\ UNCHANGED <<pos, hdr, sections, cur, dstack, dpc, dret, minput, default_id, draws,
                   built, resolverVars, httpVars>>

\* DNSHeader.from_bytes on a reader over the encoded bytes (lines 85-124).
DecodeEncodedHeader ==
    /\ mpc = "decode"
    /\ hdr' = Header_from_bytes(ReadBytes(buf, pos, Sum(HeaderFormat)))
    /\ pos' = AfterRead(buf, pos, Sum(HeaderFormat))
    /\ mpc' = "done"
    /\ UNCHANGED <<buf, sections, cur, dstack, dpc, dret, derr, minput, default_id, draws,
                   built, resolverVars, httpVars>>

NextHeader ==
    \/ EncodeHeader
    \/ DecodeEncodedHeader

SpecHeader == InitHeader /\ [][NextHeader]_vars

\* C27: a header whose fields are within their widths, encoded with
\* as_hex_str and decoded with from_bytes, comes back equal in every field.
C27_HeaderRoundTrip ==
    mpc \in {"done", "error"} => (mpc = "done" /\ hdr = minput.header)

---------------------------------------------------------------------------
(* The static file server: load_path (http_server/response.py:96-113; the  *)
(* same code is http/http_server.py:327-344).  A path that is empty or      *)
(* begins with "/" is the sequence of its segments, each preceded by "/":  *)
(* "/" is <<"">>, "/sub/" is <<"sub", "">>, "" is <<>>.  A place of the     *)
(* file system is the sequence of names leading to it from the root.       *)

MaxSegs == 3

\* settings.STATIC_DIR, an absolute path (settings.py:11).
STATIC_DIR == <<"srv", "static">>

\* The file system: a file beside the base directory, a file and a
\* directory with a file in it inside.
Directories == {<<>>, <<"srv">>, <<"srv", "static">>, <<"srv", "static", "sub">>}
Files == {<<"srv", "secret.txt">>, <<"srv", "static", "a.txt">>,
          <<"srv", "static", "sub", "b.txt">>}
Missing == <<"<missing>">>

Segments == {"", ".", "..", "a.txt", "b.txt", "sub", "secret.txt", "srv", "static"}
\* Request targets: they begin with "/".
Targets == SeqsUpTo(Segments, MaxSegs) \ {<<>>}

\* Request.path (request.py:46-51): urlparse(target).path.  A target that
\* begins with "//" has a network location up to the next "/", and the
\* path is what follows it.
UrlPath(target) ==
    IF Len(target) >= 2 /\ target[1] = "" THEN SubSeq(target, 3, Len(target)) ELSE target

\* os.path.sep.join([a, b]): a, a separator, b.
SepJoin(a, b) == a \o <<"">> \o b

\* str.startswith, for the paths load_path builds.
StartsWith(path, prefix) ==
    Len(prefix) <= Len(path) /\ SubSeq(path, 1, Len(prefix)) = prefix

Parent(place) == IF place = <<>> THEN <<>> ELSE SubSeq(place, 1, Len(place) - 1)

RECURSIVE Walk(_, _)
\* The place the operating system finds for the segments `segs` from
\* `place`: an empty segment and "." stay, ".." goes to the parent, a name
\* enters the entry of that name; every segment is looked up in a directory.
Walk(place, segs) ==
    IF segs = <<>> THEN place
    ELSE IF place \notin Directories THEN Missing
    ELSE IF Head(segs) \in {"", "."} THEN Walk(place, Tail(segs))
    ELSE IF Head(segs) = ".." THEN Walk(Parent(place), Tail(segs))
    ELSE IF Append(place, Head(segs)) \in Directories \cup Files
         THEN Walk(Append(place, Head(segs)), Tail(segs))
    ELSE Missing

\* The place of an absolute path.
PlaceOf(path) == Walk(<<>>, path)
\* os.path.exists, os.path.isfile, os.path.isdir.
Exists(path) == PlaceOf(path) # Missing
IsFile(path) == PlaceOf(path) \in Files
IsDir(path) == PlaceOf(path) \in Directories

HTTPError(status) == [status |-> status, kind |-> "error", entry |-> <<>>]
\* _load_static_file (lines 116-137): the bytes of the file at the path.
\* _load_directory_listing (lines 140-194): the names os.listdir gives there.
Response(kind, path) == [status |-> 200, kind |-> kind, entry |-> PlaceOf(path)]

\* load_path(request), lines 96-113, for a request of the given target.
load_path(target) ==
    LET path == SepJoin(STATIC_DIR, UrlPath(target))
    IN  IF ~StartsWith(path, STATIC_DIR) \/ ~Exists(path) THEN HTTPError(404)
        ELSE IF IsFile(path) THEN Response("file", path)
        ELSE Response("directory", path)

LoadPath ==
    /\ hreq # NoRequest
    /\ hresp = NoResponse
    /\ hresp' = load_path(hreq)
    /\ UNCHANGED <<hreq, serverVars, wsgiVars, resolverVars, decoderVars, codecVars>>

InitStatic ==
    /\ ResolverIdle
    /\ DecoderIdle
    /\ CodecIdle
    /\ ServerIdle
    /\ WsgiIdle
    /\ hreq \in Targets
    /\ hresp = NoResponse

NextStatic == LoadPath

SpecStatic == InitStatic /\ [][NextStatic]_vars

\* C30: whatever the request path, load_path serves an entry located under
\* STATIC_DIR or raises the 404 error.
C30_ServesOnlyUnderStaticDir ==
    hresp # NoResponse =>
        \/ hresp.status = 404
        \/ hresp.status = 200 /\ StartsWith(hresp.entry, STATIC_DIR)

---------------------------------------------------------------------------
(* Part 5. The HTTP server, in its two copies: the package http_server     *)
(* (serve.py, request.py, response.py) and the single file                 *)
(* http/http_server.py.  One step accepts a connection, one step is a      *)
(* whole call of _serve_client (serve_client).                             *)

MaxConns == 2

\* settings.py:13-15 and 16-23 (http/http_server.py:15-25).
SUPPORTED_VERSIONS == {"HTTP/1.1"}
ALLOWED_HOSTS ==
    {"0.0.0.0", "0.0.0.0:8000", "127.0.0.1", "127.0.0.1:8000", "localhost", "localhost:8000"}
\* settings.py:55 and the entry ".txt" of EXTENSION_TO_MIME_TYPE (line 48).
DEFAULT_CONTENT_TYPE == "application/octet-stream"

\* What a client sends: the request line split at spaces has `tokens`
\* tokens (method, target and version when there are three), `host` is the
\* value of the header named Host (None without one), and `fault` is what
\* the connection does: nothing, reading from it raises ConnectionResetError
\* (and so does writing), or writing to it raises BrokenPipeError.
Messages ==
    [method : {"GET", "POST"}, version : {"HTTP/1.1", "HTTP/1.0"}, tokens : {2, 3, 4},
     host : {None, "", "localhost", "127.0.0.1:8000", "evil.test"},
     fault : {"none", "reset", "pipe"}]

ServeTargets ==
    {<<"a.txt">>, <<"sub", "b.txt">>, <<"sub">>, <<"">>, <<"static">>, <<"..", "secret.txt">>,
     <<"..">>, <<"sub", "">>}

\* The bytes of the files of the file system.
FileBytes(place) ==
    CASE place = <<"srv", "static", "a.txt">> -> <<65>>
      [] place = <<"srv", "static", "sub", "b.txt">> -> <<66, 66>>
      [] OTHER -> <<83, 83, 83>>

\* os.path.splitext(request.path)[1] for the names of the model.
Extension(path) ==
    IF path # <<>> /\ path[Len(path)] \in {"a.txt", "b.txt", "secret.txt"} THEN ".txt" ELSE ""

\* Request.content_type (request.py:57-68).
content_type(target) ==
    IF Extension(UrlPath(target)) = ".txt" THEN "text/plain" ELSE DEFAULT_CONTENT_TYPE

Exc(class, status, reason) == [class |-> class, status |-> status, reason |-> reason]
NoExc == Exc("none", 0, "")

\* response.py:172-182: the page up to the heading, in UTF-8.
PackageHtmlOpen ==
    <<10, 32, 32, 32, 32, 60, 33, 68, 79, 67, 84, 89, 80, 69, 32, 104, 116,
      109, 108, 62, 10, 32, 32, 32, 32, 60, 104, 116, 109, 108, 32, 108, 97,
      110, 103, 61, 34, 101, 110, 34, 62, 10, 32, 32, 32, 32, 32, 32, 32, 32,
      60, 104, 101, 97, 100, 62, 10, 32, 32, 32, 32, 32, 32, 32, 32, 32, 32,
      60, 109, 101, 116, 97, 32, 99, 104, 97, 114, 115, 101, 116, 61, 34, 85,
      84, 70, 45, 56, 34, 32, 47, 62, 10, 32, 32, 32, 32, 32, 32, 32, 32, 32,
      32, 60, 109, 101, 116, 97, 32, 110, 97, 109, 101, 61, 34, 118, 105,
      101, 119, 112, 111, 114, 116, 34, 32, 99, 111, 110, 116, 101, 110, 116,
      61, 34, 119, 105, 100, 116, 104, 61, 100, 101, 118, 105, 99, 101, 45,
      119, 105, 100, 116, 104, 44, 32, 105, 110, 105, 116, 105, 97, 108, 45,
      115, 99, 97, 108, 101, 61, 49, 46, 48, 34, 32, 47, 62, 10, 32, 32, 32,
      32, 32, 32, 32, 32, 32, 32, 60, 116, 105, 116, 108, 101, 62, 68, 105,
      114, 101, 99, 116, 111, 114, 121, 32, 108, 105, 115, 116, 105, 110,
      103, 60, 47, 116, 105, 116, 108, 101, 62, 10, 32, 32, 32, 32, 32, 32,
      32, 32, 60, 47, 104, 101, 97, 100, 62, 10, 10, 32, 32, 32, 32, 32, 32,
      32, 32, 60, 98, 111, 100, 121, 62, 10, 32, 32, 32, 32, 32, 32, 32, 32,
      32, 32, 60, 104, 49, 62>>

\* response.py:182-183: from the heading to the list, and the "\n" before it.
PackageHtmlList ==
    <<60, 47, 104, 49, 62, 10, 32, 32, 32, 32, 32, 32, 32, 32, 32, 32, 60,
      117, 108, 62, 10>>

\* response.py:183-186: the page after the list.
PackageHtmlClose ==
    <<60, 47, 117, 108, 62, 10, 32, 32, 32, 32, 32, 32, 32, 32, 60, 47, 98,
      111, 100, 121, 62, 10, 32, 32, 32, 32, 60, 47, 104, 116, 109, 108, 62,
      10, 32, 32, 32, 32>>

\* http/http_server.py:304-314: the page up to the heading, in UTF-8.
SingleHtmlOpen ==
    <<10, 32, 32, 32, 32, 60, 33, 68, 79, 67, 84, 89, 80, 69, 32, 104, 116,
      109, 108, 62, 10, 32, 32, 32, 32, 60, 104, 116, 109, 108, 32, 108, 97,
      110, 103, 61, 34, 101, 110, 34, 62, 10, 32, 32, 32, 32, 32, 32, 32, 32,
      60, 104, 101, 97, 100, 62, 10, 32, 32, 32, 32, 32, 32, 32, 32, 32, 32,
      60, 109, 101, 116, 97, 32, 99, 104, 97, 114, 115, 101, 116, 61, 34, 85,
      84, 70, 45, 56, 34, 32, 47, 62, 10, 32, 32, 32, 32, 32, 32, 32, 32, 32,
      32, 60, 109, 101, 116, 97, 32, 110, 97, 109, 101, 61, 34, 118, 105,
      101, 119, 112, 111, 114, 116, 34, 32, 99, 111, 110, 116, 101, 110, 116,
      61, 34, 119, 105, 100, 116, 104, 61, 100, 101, 118, 105, 99, 101, 45,
      119, 105, 100, 116, 104, 44, 32, 105, 110, 105, 116, 105, 97, 108, 45,
      115, 99, 97, 108, 101, 61, 49, 46, 48, 34, 32, 47, 62, 10, 32, 32, 32,
      32, 32, 32, 32, 32, 32, 32, 60, 116, 105, 116, 108, 101, 62, 68, 105,
      114, 101, 99, 116, 111, 114, 121, 32, 108, 105, 115, 116, 105, 110,
      103, 60, 47, 116, 105, 116, 108, 101, 62, 10, 32, 32, 32, 32, 32, 32,
      32, 32, 60, 47, 104, 101, 97, 100, 62, 10, 32, 32, 32, 32, 32, 32, 32,
      32, 10, 32, 32, 32, 32, 32, 32, 32, 32, 60, 98, 111, 100, 121, 62, 10,
      32, 32, 32, 32, 32, 32, 32, 32, 32, 32, 60, 104, 49, 62>>

\* http/http_server.py:314-315: from the heading to the list.
SingleHtmlList ==
    <<60, 47, 104, 49, 62, 10, 32, 32, 32, 32, 32, 32, 32, 32, 32, 32, 60,
      117, 108, 62>>

\* http/http_server.py:315-318: the page after the list.
SingleHtmlClose ==
    <<60, 47, 117, 108, 62, 10, 32, 32, 32, 32, 32, 32, 32, 32, 60, 47, 98,
      111, 100, 121, 62, 10, 32, 32, 32, 32, 60, 47, 104, 116, 109, 108, 62,
      10, 32, 32, 32, 32>>

\* The folder and the document of response.py:160-167, in UTF-8.
FolderIcon ==
    <<240, 159, 147, 129>>

DocumentIcon ==
    <<240, 159, 147, 132>>

\* str.encode("utf-8") of the texts the server writes.
Utf8(text) ==
    CASE text = "Bad request" -> <<66, 97, 100, 32, 114, 101, 113, 117, 101, 115, 116>>
      [] text = "Not found" -> <<78, 111, 116, 32, 102, 111, 117, 110, 100>>
      [] text = "Method POST is not supported." -> <<77, 101, 116, 104, 111, 100, 32, 80, 79, 83, 84, 32, 105, 115, 32, 110, 111, 116, 32, 115, 117, 112, 112, 111, 114, 116, 101, 100, 46>>
      [] text = "Internal Server Error" -> <<73, 110, 116, 101, 114, 110, 97, 108, 32, 83, 101, 114, 118, 101, 114, 32, 69, 114, 114, 111, 114>>
      [] text = "localhost" -> <<108, 111, 99, 97, 108, 104, 111, 115, 116>>
      [] text = "127.0.0.1:8000" -> <<49, 50, 55, 46, 48, 46, 48, 46, 49, 58, 56, 48, 48, 48>>
      [] text = "evil.test" -> <<101, 118, 105, 108, 46, 116, 101, 115, 116>>
      [] text = "" -> <<>>
      [] text = "." -> <<46>>
      [] text = ".." -> <<46, 46>>
      [] text = "a.txt" -> <<97, 46, 116, 120, 116>>
      [] text = "b.txt" -> <<98, 46, 116, 120, 116>>
      [] text = "sub" -> <<115, 117, 98>>
      [] text = "secret.txt" -> <<115, 101, 99, 114, 101, 116, 46, 116, 120, 116>>
      [] text = "srv" -> <<115, 114, 118>>
      [] text = "static" -> <<115, 116, 97, 116, 105, 99>>
      [] text = "/" -> <<47>>
      [] text = "<li>" -> <<60, 108, 105, 62>>
      [] text = " <a href=\"" -> <<32, 60, 97, 32, 104, 114, 101, 102, 61, 34>>
      [] text = "<a href=\"" -> <<60, 97, 32, 104, 114, 101, 102, 61, 34>>
      [] text = "\">" -> <<34, 62>>
      [] text = "</a></li>" -> <<60, 47, 97, 62, 60, 47, 108, 105, 62>>
      [] text = "\n" -> <<10>>

RECURSIVE PathText(_)
\* The text of a path: every segment after a "/".
PathText(path) ==
    IF path = <<>> THEN <<>> ELSE Utf8("/") \o Utf8(Head(path)) \o PathText(Tail(path))

\* The absolute path of a place (os.path.abspath).
PlaceText(place) == IF place = <<>> THEN Utf8("/") ELSE PathText(place)

\* text[n:]
Drop(text, n) == SubSeq(text, n + 1, Len(text))

\* len() of the string the bytes encode: continuation bytes do not count.
CharCount(bytes) == Cardinality({i \in 1..Len(bytes) : bytes[i] \notin 128..191})

\* parse_request as _serve_client calls it.  serve.py:48 passes two
\* arguments to request.py's parse_request(connection), which raises
\* TypeError before anything is read; http/http_server.py:219-249 takes both.
parse_request(variant, msg) ==
    IF variant = "package" THEN Exc("TypeError", 0, "")
    ELSE IF msg.fault = "reset" THEN Exc("ConnectionResetError", 0, "")
    ELSE IF msg.tokens # 3 THEN Exc("Exception", 0, "")
    ELSE IF msg.version \notin SUPPORTED_VERSIONS THEN Exc("Exception", 0, "")
    ELSE IF msg.host \in {None, ""} THEN Exc("HTTPError", 400, "Bad request")
    ELSE IF msg.host \notin ALLOWED_HOSTS THEN Exc("HTTPError", 404, "Not found")
    ELSE NoExc

\* _handle_request (serve.py:65-77): what it raises, if anything.
handle_request(msg, target) ==
    IF msg.method # "GET" THEN Exc("HTTPError", 400, "Method POST is not supported.")
    ELSE IF load_path(target).status = 404 THEN Exc("HTTPError", 404, "Not found")
    ELSE NoExc

\* os.listdir(path): the names of the entries of a directory.
listdir(place) ==
    {e[Len(e)] : e \in {x \in Directories \cup Files : x # <<>> /\ Parent(x) = place}}

\* The orders in which the listing can name the entries.  os.listdir gives
\* them in arbitrary order (http/http_server.py:299); the package sorts
\* them, stably, directories first (response.py:151-154).
DirLists(variant, place) ==
    {order \in [1..Cardinality(listdir(place)) -> listdir(place)] :
        /\ \A i, j \in DOMAIN order : i # j => order[i] # order[j]
        /\ variant = "package" =>
              \A i, j \in DOMAIN order :
                  (i < j /\ Append(place, order[j]) \in Directories)
                      => Append(place, order[i]) \in Directories}

\* os.path.join(request.path, name), for a name that is not absolute.
PathJoin(text, name) ==
    IF text = <<>> THEN name
    ELSE IF text[Len(text)] = 47 THEN text \o name
    ELSE text \o Utf8("/") \o name

\* One line of the listing (response.py:165-170; http/http_server.py:299-302).
ListItem(variant, place, target, name) ==
    IF variant = "package"
    THEN Utf8("<li>")
         \o (IF Append(place, name) \in Directories THEN FolderIcon ELSE DocumentIcon)
         \o Utf8(" <a href=\"") \o PathJoin(PathText(UrlPath(target)), Utf8(name))
         \o Utf8("\">") \o Utf8(name) \o Utf8("</a></li>") \o Utf8("\n")
    ELSE Utf8("<li>") \o Utf8("<a href=\"")
         \o PathJoin(PathText(UrlPath(target)), Utf8(name))
         \o Utf8("\">") \o Utf8(name) \o Utf8("</a></li>")

RECURSIVE ListItems(_, _, _, _)
ListItems(variant, place, target, order) ==
    IF order = <<>> THEN <<>>
    ELSE ListItem(variant, place, target, Head(order))
         \o ListItems(variant, place, target, Tail(order))

\* response.py:156-163: unless the request path is "/", the package begins
\* the listing with links to "/" and to the parent directory, whose path
\* is the absolute path cut by the length of STATIC_DIR.
ParentLinks(place, target) ==
    IF UrlPath(target) = <<"">> THEN <<>>
    ELSE Utf8("<li>") \o FolderIcon \o Utf8(" <a href=\"") \o Utf8("/") \o Utf8("\">")
         \o Utf8(".") \o Utf8("</a></li>") \o Utf8("\n")
         \o Utf8("<li>") \o FolderIcon \o Utf8(" <a href=\"")
         \o Drop(PlaceText(Parent(place)), Len(PlaceText(STATIC_DIR))) \o Utf8("/")
         \o Utf8("\">") \o Utf8("..") \o Utf8("</a></li>") \o Utf8("\n")

\* The page of _load_directory_listing (response.py:140-194) and of
\* load_directory_listing (http/http_server.py:288-326), encoded.
Listing(variant, msg, target, order) ==
    LET place == load_path(target).entry
    IN  IF variant = "package"
        THEN PackageHtmlOpen \o Utf8(msg.host) \o PathText(UrlPath(target)) \o PackageHtmlList
             \o ParentLinks(place, target) \o ListItems(variant, place, target, order)
             \o PackageHtmlClose
        ELSE SingleHtmlOpen \o Utf8(msg.host) \o PathText(UrlPath(target)) \o SingleHtmlList
             \o ListItems(variant, place, target, order) \o SingleHtmlClose

\* The orders of the entries for the response to a target.
Orders(variant, target) ==
    IF load_path(target).kind = "directory"
    THEN DirLists(variant, load_path(target).entry)
    ELSE {<<>>}

\* The response _load_static_file or _load_directory_listing builds
\* (response.py:116-194).  Content-Length is len(body) of the bytes; for a
\* listing the single file takes len(html), the count of characters
\* (http/http_server.py:321-325).
Loaded(variant, msg, target, order) ==
    LET r == load_path(target)
        page == Listing(variant, msg, target, order)
    IN  IF r.kind = "file"
        THEN [status |-> 200, reason |-> "OK", ctype |-> content_type(target),
              clen |-> Len(FileBytes(r.entry)), body |-> FileBytes(r.entry), listed |-> Missing]
        ELSE [status |-> 200, reason |-> "OK", ctype |-> "text/html; charset=utf-8",
              clen |-> IF variant = "package" THEN Len(page) ELSE CharCount(page),
              body |-> page, listed |-> r.entry]

\* send_error (response.py:83-93): the response built for the exception e;
\* its body is the reason, encoded, and Content-Length is len(body).
ErrorResponse(e) ==
    LET status == IF e.class = "HTTPError" THEN e.status ELSE 500
        reason == IF e.class = "HTTPError" THEN e.reason ELSE "Internal Server Error"
        body == Utf8(reason)
    IN  [status |-> status, reason |-> reason, ctype |-> None, clen |-> Len(body),
         body |-> body, listed |-> Missing]

\* The exception the try block of _serve_client ends with (serve.py:47-54).
TryBlock(variant, msg, target) ==
    IF parse_request(variant, msg) # NoExc THEN parse_request(variant, msg)
    ELSE IF handle_request(msg, target) # NoExc THEN handle_request(msg, target)
    ELSE IF msg.fault = "pipe" THEN Exc("BrokenPipeError", 0, "")
    ELSE NoExc

\* serve_forever, line 29: a client connects, and the result of accept() is
\* bound to `connection`.  A connection _serve_client left unclosed is still
\* open while the server waits in accept(); the assignment drops the last
\* reference to it and the interpreter, which counts references, closes the
\* socket as it frees the object.
Accept ==
    /\ hpc = "accept"
    /\ Len(hconn) < MaxConns
    /\ hmsg' \in Messages
    /\ hreq' \in ServeTargets
    /\ hresp' = NoResponse
    /\ hsent' = NothingSent
    /\ hconn' = Append([k \in 1..Len(hconn) |-> "closed"], "open")
    /\ hpc' = "serve"
    /\ UNCHANGED <<hvariant, wsgiVars, resolverVars, decoderVars, codecVars>>

\* _serve_client (serve.py:40-62), called at line 33; an exception that
\* leaves it is caught and printed by serve_forever (lines 34-35).
\*   - no exception: the response is sent and the connection closed;
\*   - ConnectionResetError: connection = None rebinds the local name only,
\*     close() is not called and serve_forever still holds the socket;
\*   - another exception: send_error; when its write raises, the exception
\*     leaves _serve_client before connection.close().
ServeClient ==
    /\ hpc = "serve"
    /\ LET e == TryBlock(hvariant, hmsg, hreq)
           called == parse_request(hvariant, hmsg) = NoExc /\ hmsg.method = "GET"
       IN  /\ hresp' = IF called THEN load_path(hreq) ELSE hresp
           /\ IF e = NoExc
              THEN /\ \E order \in Orders(hvariant, hreq) :
                        hsent' = Loaded(hvariant, hmsg, hreq, order)
                   /\ hconn' = [hconn EXCEPT ![Len(hconn)] = "closed"]
              ELSE IF e.class = "ConnectionResetError" \/ hmsg.fault # "none"
              THEN /\ hsent' = hsent
                   /\ hconn' = hconn
              ELSE /\ hsent' = ErrorResponse(e)
                   /\ hconn' = [hconn EXCEPT ![Len(hconn)] = "closed"]
    /\ hpc' = "accept"
    /\ UNCHANGED <<hvariant, hmsg, hreq, wsgiVars, resolverVars, decoderVars, codecVars>>

InitServe ==
    /\ ResolverIdle
    /\ DecoderIdle
    /\ CodecIdle
    /\ WsgiIdle
    /\ hvariant \in {"package", "single"}
    /\ hpc = "accept"
    /\ hconn = <<>>
    /\ hmsg = NoMessage
    /\ hsent = NothingSent
    /\ hreq = NoRequest
    /\ hresp = NoResponse

NextServe ==
    \/ Accept
    \/ ServeClient

SpecServe == InitServe /\ [][NextServe]_vars

\* The last connection was served: _serve_client has returned or raised.
Served == hpc = "accept" /\ hconn # <<>>

\* The request of the last connection is the one C31 describes.
GoodRequest ==
    /\ hmsg.tokens = 3
    /\ hmsg.version = "HTTP/1.1"
    /\ hmsg.method = "GET"
    /\ hmsg.host \in ALLOWED_HOSTS
    /\ hmsg.fault = "none"
    /\ PlaceOf(SepJoin(STATIC_DIR, UrlPath(hreq))) \in Files
    /\ StartsWith(PlaceOf(SepJoin(STATIC_DIR, UrlPath(hreq))), STATIC_DIR)

\* C31: a GET request with a three-token line, version HTTP/1.1, an allowed
\* Host and a path naming a file under the static directory is answered by
\* _serve_client with 200, the file's bytes, their count as Content-Length
\* and the Content-Type of the extension, and the connection is closed.
C31_GoodRequestServed ==
    (hvariant = "package" /\ Served /\ GoodRequest)
        => /\ hsent.status = 200
           /\ hsent.body = FileBytes(PlaceOf(SepJoin(STATIC_DIR, UrlPath(hreq))))
           /\ hsent.clen = Len(hsent.body)
           /\ hsent.ctype = "text/plain"
           /\ hconn[Len(hconn)] = "closed"

\* What the last request was read for: no file and no directory.
NothingLoaded == hresp = NoResponse \/ hresp.kind = "error"

\* C32: a well-formed HTTP/1.1 request without a Host header is answered
\* with 400, one whose Host is not allowed with 404, one with an allowed
\* Host and a method other than GET with 400; in each case no file is read
\* and no directory is listed.
C32_RejectedRequests ==
    (Served /\ hmsg.tokens = 3 /\ hmsg.version = "HTTP/1.1" /\ hmsg.fault = "none")
        => /\ hmsg.host \in {None, ""} => (hsent.status = 400 /\ NothingLoaded)
           /\ (hmsg.host \notin {None, ""} /\ hmsg.host \notin ALLOWED_HOSTS)
                 => (hsent.status = 404 /\ NothingLoaded)
           /\ (hmsg.host \in ALLOWED_HOSTS /\ hmsg.method # "GET")
                 => (hsent.status = 400 /\ NothingLoaded)

\* C33: when serve_forever accepts a connection, every connection accepted
\* before it has been closed, whatever path _serve_client took.
C33_ClosedBeforeNextAccept ==
    [][Len(hconn') > Len(hconn) => \A k \in 1..Len(hconn) : hconn[k] = "closed"]_vars

---------------------------------------------------------------------------
(* Part 6. The WSGI application (wsgi/routes.py): WSGIApp.route registers  *)
(* a handler under a rule, WSGIApp.__call__ serves one request.  A rule    *)
(* and a path are sequences of characters.                                 *)

MaxRoutes == 2
MaxPath == 3

\* "/a", "/<x>", "/a/<x>"
RulePool ==
    {<<"/", "a">>, <<"/", "<", "x", ">">>, <<"/", "a", "/", "<", "x", ">">>}

\* Request paths: short ones over "/" and "a", and the texts of the rules.
Paths == (SeqsUpTo({"/", "a"}, MaxPath) \ {<<>>}) \cup RulePool

\* The parameters of a handler written for a rule: the names between each
\* "<" and the ">" that follows it (handler_hello_name(name), lines 82-84).
Params(rule) ==
    {SubSeq(rule, i + 1, j - 1) : <<i, j>> \in
        {ij \in (1..Len(rule)) \X (1..Len(rule)) :
            /\ ij[1] + 1 < ij[2]
            /\ rule[ij[1]] = "<"
            /\ rule[ij[2]] = ">"
            /\ \A k \in (ij[1] + 1)..(ij[2] - 1) : rule[k] \notin {"<", ">"}}}
Handler(name, rule) == [name |-> name, params |-> Params(rule)]

\* re.findall(r"<(.+)>", key), line 35: the leftmost "<" that has a ">" at
\* least two places on, and, .+ being greedy, the last ">" of the key.
HasVariable(key) ==
    \E i, j \in 1..Len(key) : i + 1 < j /\ key[i] = "<" /\ key[j] = ">"
VarOpens(key) ==
    CHOOSE i \in 1..Len(key) :
        /\ key[i] = "<" /\ \E j \in (i + 2)..Len(key) : key[j] = ">"
        /\ \A h \in 1..(i - 1) : ~(key[h] = "<" /\ \E j \in (h + 2)..Len(key) : key[j] = ">")
VarCloses(key) ==
    CHOOSE j \in 1..Len(key) : key[j] = ">" /\ \A h \in (j + 1)..Len(key) : key[h] # ">"
\* var_names[0], line 39.
VarName(key) == SubSeq(key, VarOpens(key) + 1, VarCloses(key) - 1)
\* Line 42: the pattern is the text before the variable, "(.+)", the text after.
PatternPrefix(key) == SubSeq(key, 1, VarOpens(key) - 1)
PatternSuffix(key) == SubSeq(key, VarCloses(key) + 1, Len(key))

\* The text `t` stands in `path` from index i on.
StandsAt(t, path, i) == i + Len(t) - 1 <= Len(path) /\ SubSeq(path, i, i + Len(t) - 1) = t

\* re.findall(pattern, path), line 43, is a search anywhere in the path: the
\* places <<i, j>> where the prefix stands at i, the group ends at j and the
\* suffix follows.
Found(key, path) ==
    {ij \in (1..Len(path)) \X (1..Len(path)) :
        /\ StandsAt(PatternPrefix(key), path, ij[1])
        /\ ij[2] >= ij[1] + Len(PatternPrefix(key))
        /\ StandsAt(PatternSuffix(key), path, ij[2] + 1)}
\* matches[0], line 49: the leftmost match, its group as long as can be.
FirstMatch(key, path) ==
    LET i == CHOOSE a \in {ij[1] : ij \in Found(key, path)} :
                 \A b \in {ij[1] : ij \in Found(key, path)} : a <= b
        j == CHOOSE a \in {ij[2] : ij \in {f \in Found(key, path) : f[1] = i}} :
                 \A b \in {ij[2] : ij \in {f \in Found(key, path) : f[1] = i}} : a >= b
    IN  SubSeq(path, i + Len(PatternPrefix(key)), j)

VariableRuleMatches(key, path) == HasVariable(key) /\ Found(key, path) # {}

NoHandler == [handler |-> None, kwargs |-> <<>>]

\* WSGIApp._get_route_handler, lines 26-51: the handler registered under the
\* path itself, or the first rule with a variable whose pattern is found in
\* the path, with the keyword argument for it; None without either.
Routed(rts, path) ==
    \/ \E k \in 1..Len(rts) : rts[k].rule = path
    \/ \E k \in 1..Len(rts) : VariableRuleMatches(rts[k].rule, path)
get_route_handler(rts, path) ==
    IF \E k \in 1..Len(rts) : rts[k].rule = path
    THEN [handler |-> rts[CHOOSE k \in 1..Len(rts) : rts[k].rule = path].handler,
          kwargs |-> <<>>]
    ELSE IF \E k \in 1..Len(rts) : VariableRuleMatches(rts[k].rule, path)
    THEN LET k == CHOOSE a \in 1..Len(rts) :
                      /\ VariableRuleMatches(rts[a].rule, path)
                      /\ \A b \in 1..(a - 1) : ~VariableRuleMatches(rts[b].rule, path)
         IN  [handler |-> rts[k].handler,
              kwargs |-> <<VarName(rts[k].rule), FirstMatch(rts[k].rule, path)>>]
    ELSE NoHandler

\* handler(), line 58: the call succeeds when the keyword arguments are the
\* handler's parameters, and raises TypeError otherwise.
Callable(h) ==
    IF h.kwargs = <<>> THEN h.handler.params = {} ELSE h.handler.params = {h.kwargs[1]}

\* WSGIApp.__call__, lines 53-71.
application(rts, path) ==
    LET h == get_route_handler(rts, path)
    IN  IF ~Routed(rts, path)
        THEN [path |-> path, handler |-> None, kwargs |-> <<>>, status |-> "404 Not Found",
              body |-> <<>>, started |-> 1, error |-> None]
        ELSE IF Callable(h)
        THEN [path |-> path, handler |-> h.handler.name, kwargs |-> h.kwargs,
              status |-> "200 OK", body |-> <<h.handler.name>> \o h.kwargs, started |-> 1,
              error |-> None]
        ELSE [path |-> path, handler |-> h.handler.name, kwargs |-> h.kwargs, status |-> "",
              body |-> <<>>, started |-> 0, error |-> "TypeError"]

\* @application.route(rule), lines 19-24: dict.update replaces the handler
\* of a rule already registered, in its place, or adds the rule at the end.
Route ==
    /\ \E rule \in RulePool, name \in {"f", "g"} :
         IF \E k \in 1..Len(routes) : routes[k].rule = rule
         THEN routes' = [k \in 1..Len(routes) |->
                            IF routes[k].rule = rule
                            THEN [rule |-> rule, handler |-> Handler(name, rule)]
                            ELSE routes[k]]
         ELSE /\ Len(routes) < MaxRoutes
              /\ routes' = Append(routes, [rule |-> rule, handler |-> Handler(name, rule)])
    /\ UNCHANGED <<wres, hreq, hresp, serverVars, resolverVars, decoderVars, codecVars>>

\* The server calls the application for a request (server.py:56).
CallApplication ==
    /\ \E path \in Paths : wres' = application(routes, path)
    /\ UNCHANGED <<routes, hreq, hresp, serverVars, resolverVars, decoderVars, codecVars>>

InitWsgi ==
    /\ ResolverIdle
    /\ DecoderIdle
    /\ CodecIdle
    /\ StaticIdle

NextWsgi ==
    \/ Route
    \/ CallApplication

SpecWsgi == InitWsgi /\ [][NextWsgi]_vars

\* C34: a call of the application with a path equal to a registered rule
\* calls that rule's handler, even when a rule with a variable matches too;
\* otherwise the first registered rule with a variable that matches is
\* called with the extracted value; start_response is called exactly once,
\* with 200 OK when a handler was found and with 404 Not Found and an empty
\* body when none was.
C34_Dispatch ==
    [][wres' # wres =>
        LET path == wres'.path
            exact == {k \in 1..Len(routes) : routes[k].rule = path}
            matching == {k \in 1..Len(routes) : VariableRuleMatches(routes[k].rule, path)}
        IN  /\ wres'.started = 1
            /\ exact # {} =>
                  /\ wres'.status = "200 OK"
                  /\ \E k \in exact : wres'.handler = routes[k].handler.name
            /\ (exact = {} /\ matching # {}) =>
                  /\ wres'.status = "200 OK"
                  /\ \E k \in matching :
                        /\ \A b \in matching : k <= b
                        /\ wres'.handler = routes[k].handler.name
                        /\ wres'.kwargs = <<VarName(routes[k].rule),
                                            FirstMatch(routes[k].rule, path)>>
            /\ (exact = {} /\ matching = {}) =>
                  (wres'.status = "404 Not Found" /\ wres'.body = <<>>)]_vars

====
